---- MODULE Spec2Model ----
(***************************************************************************)
(* Celora secure wallet core: PIN verification with lockout and the card   *)
(* store, as implemented by                                                *)
(*   - class Wallet               (migration_source/celora_wallet.py)      *)
(*   - class CeloraWalletService  (.../services/walletService.py)          *)
(* Strings are sequences of one-character strings; an Optional[str] is a   *)
(* sequence of length 0 (None) or 1.  Time is time.time() in whole ticks.  *)
(***************************************************************************)
EXTENDS Integers, Sequences, FiniteSets, TLC

\* ------------------------------------------------------------------ bounds
max_attempts == 3
lockout_seconds == 2
MaxTime == 5
NumThreads == 2
MaxKeys == 2
DkLen == 3

\* ------------------------------------------------------------------ inputs
DigitChars == {"0", "1", "2", "3", "4", "5", "6", "7", "8", "9"}
DigitVal == [c \in DigitChars |->
               CASE c = "0" -> 0 [] c = "1" -> 1 [] c = "2" -> 2 [] c = "3" -> 3
                 [] c = "4" -> 4 [] c = "5" -> 5 [] c = "6" -> 6 [] c = "7" -> 7
                 [] c = "8" -> 8 [] c = "9" -> 9]

Pin1 == <<"1", "2", "3", "4", "5", "6">>
Pin2 == <<"6", "5", "4", "3", "2", "1">>
PinShort == <<"1", "2", "3", "4">>
Pins == {Pin1, Pin2}
CreatePins == {Pin1, Pin2, PinShort}
None == <<>>
Some(x) == <<x>>

Salts == {"salt_a"}
Owners == {"alice", "bob"}
WalletOwner == "test@celora.com"
CardIds == {"c1", "c2"}

GoodNumber == <<"4","5","3","2","0","1","5","1","1","2","8","3","0","3","6","6">>
BadNumber == <<"4","5","3","2","0","1","5","1","1","2","8","3","0","3","6","7">>
GoodCard == [card_number |-> GoodNumber, expiry |-> <<"1","2","/","3","0">>,
             cvv |-> Some(<<"1","2","3">>)]
BadLuhnCard == [card_number |-> BadNumber, expiry |-> <<"1","2","/","3","0">>,
                cvv |-> Some(<<"1","2","3">>)]
NoCvvCard == [card_number |-> GoodNumber, expiry |-> <<"1","2","/","3","0">>,
              cvv |-> None]
CardInputs == {GoodCard, BadLuhnCard, NoCvvCard}

\* a second valid card, written with blanks and a four-digit year
OtherNumber == <<"4","2","4","2"," ","4","2","4","2"," ","4","2","4","2"," ","4","2","4","2">>
OtherCard == [card_number |-> OtherNumber, expiry |-> <<"0","1","/","2","0","3","1">>,
              cvv |-> Some(<<"1","2","3","4">>)]
ValidCards == {GoodCard, NoCvvCard, OtherCard}

\* time.localtime() at the time of the run
localtime == [tm_year |-> 2026, tm_mon |-> 11]

\* ------------------------------------------------------------ dictionaries
EmptyMap == [x \in {} |-> x]
Put(f, k, v) == [x \in (DOMAIN f) \cup {k} |-> IF x = k THEN v ELSE f[x]]
Del(f, k) == [x \in (DOMAIN f) \ {k} |-> f[x]]

\* ------------------------------------------------------------ str helpers
isdigit(s) == Len(s) > 0 /\ \A i \in 1..Len(s) : s[i] \in DigitChars
Digits(s) == SelectSeq(s, LAMBDA c : c \in DigitChars)

RECURSIVE int(_)
int(s) == IF Len(s) = 0 THEN 0
          ELSE 10 * int(SubSeq(s, 1, Len(s) - 1)) + DigitVal[s[Len(s)]]

RECURSIVE split(_, _)
\* str.split(sep) for a one-character separator
split(s, sep) ==
    IF \E i \in 1..Len(s) : s[i] = sep
    THEN LET i == CHOOSE j \in 1..Len(s) :
                     s[j] = sep /\ \A k \in 1..(j - 1) : s[k] # sep
         IN <<SubSeq(s, 1, i - 1)>> \o split(SubSeq(s, i + 1, Len(s)), sep)
    ELSE <<s>>

\* --------------------------------------------------------------- crypto
\* PBKDF2-HMAC-SHA256 as an injective function of (password, salt)
pbkdf2_hmac(password, salt) == [kdf |-> "pbkdf2-sha256", password |-> password, salt |-> salt]
compare_digest(a, b) == a = b

\* Fernet: a token opens only under the key that made it
fernet_encrypt(key, payload) == [key |-> key, payload |-> payload]
fernet_decrypt(key, token) ==
    IF token.key = key THEN [ok |-> TRUE, payload |-> token.payload]
    ELSE [ok |-> FALSE, payload |-> EmptyMap]

WalletKey == "wallet_fernet_key"
ServiceKey == "service_fernet_key"

\* ------------------------------------------------- card validation helpers
RECURSIVE luhn_checksum_undoubled_nines(_, _, _)
\* variant: a doubled digit above 9 keeps its two-digit value
luhn_checksum_undoubled_nines(digits, parity, i) ==
    IF i >= Len(digits) THEN 0
    ELSE LET d == DigitVal[digits[i + 1]]
             dd == IF i % 2 = parity THEN d * 2 ELSE d
         IN dd + luhn_checksum_undoubled_nines(digits, parity, i + 1)

RECURSIVE luhn_checksum(_, _, _)
\* the loop "for i, d in enumerate(digits)" from index i on
luhn_checksum(digits, parity, i) ==
    IF i >= Len(digits) THEN 0
    ELSE LET d == DigitVal[digits[i + 1]]
             dd == IF i % 2 = parity
                   THEN (IF d * 2 > 9 THEN d * 2 - 9 ELSE d * 2)
                   ELSE d
         IN dd + luhn_checksum(digits, parity, i + 1)

_luhn_valid(card_number) ==
    LET digits == Digits(card_number)
    IN IF Len(digits) = 0 THEN FALSE
       ELSE luhn_checksum(digits, Len(digits) % 2, 0) % 10 = 0

_validate_expiry(expiry) ==
    LET parts == split(expiry, "/")
    IN IF Len(parts) # 2 THEN FALSE
       ELSE IF ~(isdigit(parts[1]) /\ isdigit(parts[2])) THEN FALSE   \* int() raises
       ELSE LET mm == int(parts[1])
                y0 == int(parts[2])
                yy == IF y0 < 100 THEN y0 + 2000 ELSE y0
            IN IF ~(1 <= mm /\ mm <= 12) THEN FALSE
               ELSE IF yy < localtime.tm_year THEN FALSE
               ELSE IF yy = localtime.tm_year /\ mm < localtime.tm_mon THEN FALSE
               ELSE TRUE

_mask_card_number(number) ==
    LET n == Digits(number)
    IN IF Len(n) <= 4 THEN n
       ELSE [i \in 1..Len(n) |-> IF i <= Len(n) - 4 THEN "*" ELSE n[i]]

\* ------------------------------------------------ class Wallet (one owner)
\* what a call hands back: the object afterwards, how the PIN check went
\* ("none" | "ok" | "mismatch" | "locked"), the exception raised ("" if none),
\* whether it returned a success value, an id and the returned data
Out(st, auth, exc, msg, ok, id, data) ==
    [st |-> st, auth |-> auth, exc |-> exc, msg |-> msg, ok |-> ok, id |-> id, data |-> data]

_hash_pincode(pincode, salt) == <<salt, pbkdf2_hmac(pincode, salt)>>

Wallet__init__(owner, pincode, salt) ==
    [owner |-> owner,
     pincode_hash |-> _hash_pincode(pincode, salt),
     failed_attempts |-> 0,
     lockout_until |-> 0,
     max_attempts |-> max_attempts,
     lockout_seconds |-> lockout_seconds,
     fernet |-> WalletKey,
     cards |-> <<>>]

\* variant: the lock is looked at only after the PIN failed to match
_verify_pincode_pin_before_lock(w, pincode, t) ==
    IF compare_digest(w.pincode_hash[2], pbkdf2_hmac(pincode, w.pincode_hash[1]))
    THEN Out([w EXCEPT !.failed_attempts = 0], "ok", "", "", TRUE, None, <<>>)
    ELSE IF t < w.lockout_until
    THEN Out(w, "locked", "WalletLockedError", "Wallet locked until", FALSE, None, <<>>)
    ELSE LET w1 == [w EXCEPT !.failed_attempts = @ + 1]
             w2 == IF w1.failed_attempts >= w1.max_attempts
                   THEN [w1 EXCEPT !.lockout_until = t + w1.lockout_seconds]
                   ELSE w1
         IN Out(w2, "mismatch", "", "", FALSE, None, <<>>)

\* variant: a match does not reset failed_attempts
_verify_pincode_no_reset(w, pincode, t) ==
    IF t < w.lockout_until
    THEN Out(w, "locked", "WalletLockedError", "Wallet locked until", FALSE, None, <<>>)
    ELSE IF compare_digest(w.pincode_hash[2], pbkdf2_hmac(pincode, w.pincode_hash[1]))
    THEN Out(w, "ok", "", "", TRUE, None, <<>>)
    ELSE LET w1 == [w EXCEPT !.failed_attempts = @ + 1]
             w2 == IF w1.failed_attempts >= w1.max_attempts
                   THEN [w1 EXCEPT !.lockout_until = t + w1.lockout_seconds]
                   ELSE w1
         IN Out(w2, "mismatch", "", "", FALSE, None, <<>>)

_verify_pincode(w, pincode, t) ==
    IF t < w.lockout_until
    THEN Out(w, "locked", "WalletLockedError", "Wallet locked until", FALSE, None, <<>>)
    ELSE LET raw == w.pincode_hash
             salt == raw[1]
             stored_dk == raw[2]
             dk == pbkdf2_hmac(pincode, salt)
             ok == compare_digest(stored_dk, dk)
         IN IF ok
            THEN Out([w EXCEPT !.failed_attempts = 0], "ok", "", "", TRUE, None, <<>>)
            ELSE LET w1 == [w EXCEPT !.failed_attempts = @ + 1]
                     w2 == IF w1.failed_attempts >= w1.max_attempts
                           THEN [w1 EXCEPT !.lockout_until = t + w1.lockout_seconds]
                           ELSE w1
                 IN Out(w2, "mismatch", "", "", FALSE, None, <<>>)

VirtualCard_decrypt(card, fernet) ==
    LET d == fernet_decrypt(fernet, card.encrypted)
    IN IF d.ok THEN [exc |-> "", payload |-> d.payload]
       ELSE [exc |-> "ValueError", payload |-> EmptyMap]

VirtualCard_masked(card, fernet) ==
    LET d == fernet_decrypt(fernet, card.encrypted)
    IN IF ~d.ok THEN [exc |-> "ValueError", view |-> EmptyMap]
       ELSE [exc |-> "",
             view |-> [id |-> card.id,
                       card_number_masked |-> _mask_card_number(d.payload.card_number),
                       expiry |-> d.payload.expiry,
                       cvv_masked |-> <<"*", "*", "*">>]]

\* Wallet.add_card(card_number, expiry, cvv=None, pincode=None); card_id is the
\* token secrets.token_hex(8) draws
\* variant: the digits of the card number are kept, its other characters dropped
Wallet_add_card_digits_only(w, card, pincode, card_id, t) ==
    LET v == IF pincode # None THEN _verify_pincode(w, pincode[1], t)
             ELSE Out(w, "none", "", "", TRUE, None, <<>>)
        w1 == v.st
    IN IF v.exc # "" THEN v
       ELSE IF ~v.ok
       THEN Out(w1, v.auth, "ValueError", "Invalid pincode.", FALSE, None, <<>>)
       ELSE IF ~_luhn_valid(card.card_number)
       THEN Out(w1, v.auth, "ValueError", "Invalid card number (failed Luhn check).", FALSE, None, <<>>)
       ELSE IF card.cvv # None /\ ~(isdigit(card.cvv[1]) /\ 3 <= Len(card.cvv[1]) /\ Len(card.cvv[1]) <= 4)
       THEN Out(w1, v.auth, "ValueError", "Invalid CVV.", FALSE, None, <<>>)
       ELSE IF ~_validate_expiry(card.expiry)
       THEN Out(w1, v.auth, "ValueError", "Expiry must be in MM/YY or MM/YYYY format and not be in the past.", FALSE, None, <<>>)
       ELSE LET payload == [card_number |-> Digits(card.card_number), expiry |-> card.expiry]
                vc == [id |-> card_id, encrypted |-> fernet_encrypt(w1.fernet, payload)]
            IN Out([w1 EXCEPT !.cards = Append(@, vc)], v.auth, "", "", TRUE, Some(card_id), <<>>)

Wallet_add_card(w, card, pincode, card_id, t) ==
    LET v == IF pincode # None THEN _verify_pincode(w, pincode[1], t)
             ELSE Out(w, "none", "", "", TRUE, None, <<>>)
        w1 == v.st
    IN IF v.exc # "" THEN v
       ELSE IF ~v.ok
       THEN Out(w1, v.auth, "ValueError", "Invalid pincode.", FALSE, None, <<>>)
       ELSE IF ~_luhn_valid(card.card_number)
       THEN Out(w1, v.auth, "ValueError", "Invalid card number (failed Luhn check).", FALSE, None, <<>>)
       ELSE IF card.cvv # None /\ ~(isdigit(card.cvv[1]) /\ 3 <= Len(card.cvv[1]) /\ Len(card.cvv[1]) <= 4)
       THEN Out(w1, v.auth, "ValueError", "Invalid CVV.", FALSE, None, <<>>)
       ELSE IF ~_validate_expiry(card.expiry)
       THEN Out(w1, v.auth, "ValueError", "Expiry must be in MM/YY or MM/YYYY format and not be in the past.", FALSE, None, <<>>)
       ELSE LET payload == [card_number |-> card.card_number, expiry |-> card.expiry]
                encrypted == fernet_encrypt(w1.fernet, payload)
                vc == [id |-> card_id, encrypted |-> encrypted]
            IN Out([w1 EXCEPT !.cards = Append(@, vc)], v.auth, "", "", TRUE, Some(card_id), <<>>)

Wallet_list_cards(w) ==
    LET views == [i \in 1..Len(w.cards) |-> VirtualCard_masked(w.cards[i], w.fernet)]
    IN IF \E i \in 1..Len(views) : views[i].exc # ""
       THEN Out(w, "none", "ValueError", "Unable to decrypt card - invalid key", FALSE, None, <<>>)
       ELSE Out(w, "none", "", "", TRUE, None, [i \in 1..Len(views) |-> views[i].view])

Wallet_get_card(w, card_id, pincode, t) ==
    LET v == _verify_pincode(w, pincode, t)
        w1 == v.st
    IN IF v.exc # "" THEN v
       ELSE IF ~v.ok
       THEN Out(w1, v.auth, "ValueError", "Invalid pincode.", FALSE, None, <<>>)
       ELSE IF \E i \in 1..Len(w1.cards) : w1.cards[i].id = card_id
       THEN LET i == CHOOSE j \in 1..Len(w1.cards) :
                        w1.cards[j].id = card_id
                        /\ \A k \in 1..(j - 1) : w1.cards[k].id # card_id
                d == VirtualCard_decrypt(w1.cards[i], w1.fernet)
            IN IF d.exc # ""
               THEN Out(w1, v.auth, d.exc, "Unable to decrypt card - invalid key", FALSE, None, <<>>)
               ELSE Out(w1, v.auth, "", "", TRUE, Some(card_id), <<d.payload>>)
       ELSE Out(w1, v.auth, "KeyError", "Card not found.", FALSE, None, <<>>)

\* --------------------------------------- class CeloraWalletService (self)
\* self == [wallets |-> user_id -> wallet dict, cards |-> card_id -> EncryptedCard]
\* (the created_at stamps of wallets and cards are not kept)
\* variant: only the length of the PIN is looked at
_validate_pin_length_only(pin) == Len(pin) = 6

_validate_pin(pin) == isdigit(pin) /\ Len(pin) = 6

_hash_pin(pin, salt) == <<salt, pbkdf2_hmac(pin, salt)>>

_verify_pin_hash(pin, pin_hash) ==
    LET raw == pin_hash
        salt == raw[1]
        stored_dk == raw[2]
        dk == pbkdf2_hmac(pin, salt)
    IN compare_digest(stored_dk, dk)

create_wallet(self, user_id, pin, salt) ==
    IF ~_validate_pin(pin)
    THEN Out(self, "none", "", "PIN must be 6 digits", FALSE, None, <<>>)
    ELSE LET wallet_data == [owner |-> user_id,
                             pin_hash |-> _hash_pin(pin, salt),
                             failed_attempts |-> 0,
                             locked_until |-> 0,
                             max_attempts |-> max_attempts,
                             lockout_seconds |-> lockout_seconds,
                             cards |-> <<>>]
         IN Out([self EXCEPT !.wallets = Put(@, user_id, wallet_data)],
                "none", "", "", TRUE, None, <<>>)

\* variant: the wallet still counts as locked at the instant lockout_until
verify_pin_locked_at_expiry(self, user_id, pin, t) ==
    IF user_id \notin DOMAIN self.wallets
    THEN Out(self, "none", "ValueError", "Wallet not found", FALSE, None, <<>>)
    ELSE LET wallet == self.wallets[user_id]
         IN IF t <= wallet.locked_until
            THEN Out(self, "locked", "WalletLockedError", "Wallet locked until", FALSE, None, <<>>)
            ELSE IF _verify_pin_hash(pin, wallet.pin_hash)
            THEN Out([self EXCEPT !.wallets[user_id].failed_attempts = 0],
                     "ok", "", "", TRUE, None, <<>>)
            ELSE LET w1 == [wallet EXCEPT !.failed_attempts = @ + 1]
                 IN IF w1.failed_attempts >= w1.max_attempts
                    THEN Out([self EXCEPT !.wallets[user_id] =
                                 [w1 EXCEPT !.locked_until = t + w1.lockout_seconds]],
                             "mismatch", "WalletLockedError",
                             "Too many failed attempts - wallet locked", FALSE, None, <<>>)
                    ELSE Out([self EXCEPT !.wallets[user_id] = w1],
                             "mismatch", "", "", FALSE, None, <<>>)

\* variant: one attempt counter shared by all wallets
verify_pin_shared_counter(self, user_id, pin, t) ==
    IF user_id \notin DOMAIN self.wallets
    THEN Out(self, "none", "ValueError", "Wallet not found", FALSE, None, <<>>)
    ELSE LET wallet == self.wallets[user_id]
         IN IF t < wallet.locked_until
            THEN Out(self, "locked", "WalletLockedError", "Wallet locked until", FALSE, None, <<>>)
            ELSE IF _verify_pin_hash(pin, wallet.pin_hash)
            THEN Out([self EXCEPT !.wallets[user_id].failed_attempts = 0],
                     "ok", "", "", TRUE, None, <<>>)
            ELSE LET counted == [self EXCEPT !.wallets =
                                    [u \in DOMAIN @ |-> [@[u] EXCEPT !.failed_attempts = @ + 1]]]
                     w1 == counted.wallets[user_id]
                 IN IF w1.failed_attempts >= w1.max_attempts
                    THEN Out([counted EXCEPT !.wallets[user_id].locked_until = t + w1.lockout_seconds],
                             "mismatch", "WalletLockedError",
                             "Too many failed attempts - wallet locked", FALSE, None, <<>>)
                    ELSE Out(counted, "mismatch", "", "", FALSE, None, <<>>)

\* variant: an attempt made during the lockout starts the lockout window again
verify_pin_extends_lockout(self, user_id, pin, t) ==
    IF user_id \notin DOMAIN self.wallets
    THEN Out(self, "none", "ValueError", "Wallet not found", FALSE, None, <<>>)
    ELSE LET wallet == self.wallets[user_id]
         IN IF t < wallet.locked_until
            THEN Out([self EXCEPT !.wallets[user_id].locked_until = t + wallet.lockout_seconds],
                     "locked", "WalletLockedError", "Wallet locked until", FALSE, None, <<>>)
            ELSE IF _verify_pin_hash(pin, wallet.pin_hash)
            THEN Out([self EXCEPT !.wallets[user_id].failed_attempts = 0],
                     "ok", "", "", TRUE, None, <<>>)
            ELSE LET w1 == [wallet EXCEPT !.failed_attempts = @ + 1]
                 IN IF w1.failed_attempts >= w1.max_attempts
                    THEN Out([self EXCEPT !.wallets[user_id] =
                                 [w1 EXCEPT !.locked_until = t + w1.lockout_seconds]],
                             "mismatch", "WalletLockedError",
                             "Too many failed attempts - wallet locked", FALSE, None, <<>>)
                    ELSE Out([self EXCEPT !.wallets[user_id] = w1],
                             "mismatch", "", "", FALSE, None, <<>>)

verify_pin(self, user_id, pin, t) ==
    IF user_id \notin DOMAIN self.wallets
    THEN Out(self, "none", "ValueError", "Wallet not found", FALSE, None, <<>>)
    ELSE LET wallet == self.wallets[user_id]
         IN IF t < wallet.locked_until
            THEN Out(self, "locked", "WalletLockedError", "Wallet locked until", FALSE, None, <<>>)
            ELSE IF _verify_pin_hash(pin, wallet.pin_hash)
            THEN Out([self EXCEPT !.wallets[user_id].failed_attempts = 0],
                     "ok", "", "", TRUE, None, <<>>)
            ELSE LET w1 == [wallet EXCEPT !.failed_attempts = @ + 1]
                 IN IF w1.failed_attempts >= w1.max_attempts
                    THEN Out([self EXCEPT !.wallets[user_id] =
                                 [w1 EXCEPT !.locked_until = t + w1.lockout_seconds]],
                             "mismatch", "WalletLockedError",
                             "Too many failed attempts - wallet locked", FALSE, None, <<>>)
                    ELSE Out([self EXCEPT !.wallets[user_id] = w1],
                             "mismatch", "", "", FALSE, None, <<>>)

_luhn_validate(card_number) ==
    LET digits == Digits(card_number)
    IN luhn_checksum(digits, Len(digits) % 2, 0) % 10 = 0

Service_validate_expiry(expiry) ==
    IF ~(\E i \in 1..Len(expiry) : expiry[i] = "/") THEN FALSE
    ELSE LET parts == split(expiry, "/")
         IN IF Len(parts) # 2 THEN FALSE
            ELSE LET month == parts[1]
                     year == parts[2]
                 IN IF ~(isdigit(month) /\ 1 <= int(month) /\ int(month) <= 12) THEN FALSE
                    ELSE IF ~(isdigit(year) /\ (Len(year) = 2 \/ Len(year) = 4)) THEN FALSE
                    ELSE TRUE

\* "" when the card data passes, else the CardValidationError message
_validate_card_data(card_data) ==
    IF card_data.cvv = None THEN "Missing required field: cvv"
    ELSE IF ~_luhn_validate(card_data.card_number)
    THEN "Invalid card number (failed Luhn check)"
    ELSE IF ~(isdigit(card_data.cvv[1]) /\ 3 <= Len(card_data.cvv[1]) /\ Len(card_data.cvv[1]) <= 4)
    THEN "Invalid CVV"
    ELSE IF ~Service_validate_expiry(card_data.expiry)
    THEN "Invalid expiry format (use MM/YY or MM/YYYY)"
    ELSE ""

EncryptedCard_mask_card_number(number) ==
    LET clean_number == Digits(number)
    IN IF Len(clean_number) < 4 THEN [i \in 1..Len(clean_number) |-> "*"]
       ELSE [i \in 1..Len(clean_number) |->
               IF i <= Len(clean_number) - 4 THEN "*" ELSE clean_number[i]]

get_masked_data(card, fernet) ==
    LET d == fernet_decrypt(fernet, card.encrypted_data)
    IN IF ~d.ok THEN [error |-> "Failed to decrypt card data"]
       ELSE [id |-> card.id,
             card_number_masked |-> EncryptedCard_mask_card_number(d.payload.card_number),
             expiry |-> d.payload.expiry,
             cvv_masked |-> <<"*", "*", "*">>,
             status |-> card.status]

\* the except-branch of every service method: {"success": False, "error": str(e)}
Failure(st, auth, msg) == Out(st, auth, "", msg, FALSE, None, <<>>)

\* variant: the card is stored before its data is validated
add_card_stores_first(self, user_id, card_data, pin, card_id, t) ==
    LET v == verify_pin(self, user_id, pin, t)
        s1 == v.st
    IN IF v.exc # "" THEN Failure(s1, v.auth, v.msg)
       ELSE IF ~v.ok THEN Failure(s1, v.auth, "Invalid PIN")
       ELSE LET card_payload == [card_number |-> card_data.card_number,
                                 expiry |-> card_data.expiry,
                                 cvv |-> IF card_data.cvv = None THEN "" ELSE card_data.cvv[1],
                                 cardholder_name |-> ""]
                encrypted_card == [id |-> card_id,
                                   owner_id |-> user_id,
                                   encrypted_data |-> fernet_encrypt(ServiceKey, card_payload),
                                   status |-> "active"]
                s2 == [s1 EXCEPT !.cards = Put(@, card_id, encrypted_card),
                                 !.wallets[user_id].cards = Append(@, card_id)]
            IN IF _validate_card_data(card_data) # ""
               THEN Failure(s2, v.auth, _validate_card_data(card_data))
               ELSE Out(s2, v.auth, "", "", TRUE, Some(card_id),
                        <<get_masked_data(encrypted_card, ServiceKey)>>)

add_card(self, user_id, card_data, pin, card_id, t) ==
    LET v == verify_pin(self, user_id, pin, t)
        s1 == v.st
    IN IF v.exc # "" THEN Failure(s1, v.auth, v.msg)
       ELSE IF ~v.ok THEN Failure(s1, v.auth, "Invalid PIN")
       ELSE IF _validate_card_data(card_data) # ""
       THEN Failure(s1, v.auth, _validate_card_data(card_data))
       ELSE LET card_payload == [card_number |-> card_data.card_number,
                                 expiry |-> card_data.expiry,
                                 cvv |-> card_data.cvv[1],
                                 cardholder_name |-> ""]
                encrypted_card == [id |-> card_id,
                                   owner_id |-> user_id,
                                   encrypted_data |-> fernet_encrypt(ServiceKey, card_payload),
                                   status |-> "active"]
                s2 == [s1 EXCEPT !.cards = Put(@, card_id, encrypted_card),
                                 !.wallets[user_id].cards = Append(@, card_id)]
            IN Out(s2, v.auth, "", "", TRUE, Some(card_id),
                   <<get_masked_data(encrypted_card, ServiceKey)>>)

get_cards(self, user_id, pin, t) ==
    LET v == verify_pin(self, user_id, pin, t)
        s1 == v.st
    IN IF v.exc # "" THEN Failure(s1, v.auth, v.msg)
       ELSE IF ~v.ok THEN Failure(s1, v.auth, "Invalid PIN")
       ELSE LET ids == SelectSeq(s1.wallets[user_id].cards,
                                 LAMBDA cid : cid \in DOMAIN s1.cards)
            IN Out(s1, v.auth, "", "", TRUE, None,
                   [i \in 1..Len(ids) |-> get_masked_data(s1.cards[ids[i]], ServiceKey)])

\* variant: the card is handed out without looking at its owner
get_card_details_any_owner(self, user_id, card_id, pin, t) ==
    LET v == verify_pin(self, user_id, pin, t)
        s1 == v.st
    IN IF v.exc # "" THEN Failure(s1, v.auth, v.msg)
       ELSE IF ~v.ok THEN Failure(s1, v.auth, "Invalid PIN")
       ELSE IF card_id \notin DOMAIN s1.cards THEN Failure(s1, v.auth, "Card not found")
       ELSE LET d == fernet_decrypt(ServiceKey, s1.cards[card_id].encrypted_data)
            IN IF ~d.ok THEN Failure(s1, v.auth, "Unable to decrypt card - invalid key")
               ELSE Out(s1, v.auth, "", "", TRUE, Some(card_id), <<d.payload>>)

get_card_details(self, user_id, card_id, pin, t) ==
    LET v == verify_pin(self, user_id, pin, t)
        s1 == v.st
    IN IF v.exc # "" THEN Failure(s1, v.auth, v.msg)
       ELSE IF ~v.ok THEN Failure(s1, v.auth, "Invalid PIN")
       ELSE IF card_id \notin DOMAIN s1.cards THEN Failure(s1, v.auth, "Card not found")
       ELSE IF s1.cards[card_id].owner_id # user_id
       THEN Failure(s1, v.auth, "Access denied - not card owner")
       ELSE LET d == fernet_decrypt(ServiceKey, s1.cards[card_id].encrypted_data)
            IN IF ~d.ok THEN Failure(s1, v.auth, "Unable to decrypt card - invalid key")
               ELSE Out(s1, v.auth, "", "", TRUE, Some(card_id), <<d.payload>>)

\* variant: the PIN is compared with the stored hash directly, nothing is counted
delete_card_uncounted(self, user_id, card_id, pin, t) ==
    IF user_id \notin DOMAIN self.wallets THEN Failure(self, "none", "Wallet not found")
    ELSE IF ~_verify_pin_hash(pin, self.wallets[user_id].pin_hash)
    THEN Failure(self, "mismatch", "Invalid PIN")
    ELSE IF card_id \notin DOMAIN self.cards THEN Failure(self, "ok", "Card not found")
    ELSE IF self.cards[card_id].owner_id # user_id
    THEN Failure(self, "ok", "Access denied - not card owner")
    ELSE Out([self EXCEPT !.cards = Del(@, card_id),
                          !.wallets[user_id].cards = SelectSeq(@, LAMBDA cid : cid # card_id)],
             "ok", "", "Card deleted successfully", TRUE, None, <<>>)

\* variant: the card is removed without looking whether it is stored
delete_card_unchecked(self, user_id, card_id, pin, t) ==
    LET v == verify_pin(self, user_id, pin, t)
        s1 == v.st
    IN IF v.exc # "" THEN Failure(s1, v.auth, v.msg)
       ELSE IF ~v.ok THEN Failure(s1, v.auth, "Invalid PIN")
       ELSE IF card_id \notin DOMAIN s1.cards
       THEN Out(s1, v.auth, "KeyError", card_id, TRUE, None, <<>>)
       ELSE IF s1.cards[card_id].owner_id # user_id
       THEN Failure(s1, v.auth, "Access denied - not card owner")
       ELSE Out([s1 EXCEPT !.cards = Del(@, card_id),
                           !.wallets[user_id].cards = SelectSeq(@, LAMBDA cid : cid # card_id)],
                v.auth, "", "Card deleted successfully", TRUE, None, <<>>)

delete_card(self, user_id, card_id, pin, t) ==
    LET v == verify_pin(self, user_id, pin, t)
        s1 == v.st
    IN IF v.exc # "" THEN Failure(s1, v.auth, v.msg)
       ELSE IF ~v.ok THEN Failure(s1, v.auth, "Invalid PIN")
       ELSE IF card_id \notin DOMAIN s1.cards THEN Failure(s1, v.auth, "Card not found")
       ELSE IF s1.cards[card_id].owner_id # user_id
       THEN Failure(s1, v.auth, "Access denied - not card owner")
       ELSE LET s2 == [s1 EXCEPT !.cards = Del(@, card_id)]
                s3 == IF user_id \in DOMAIN s2.wallets
                      THEN [s2 EXCEPT !.wallets[user_id].cards =
                                SelectSeq(@, LAMBDA cid : cid # card_id)]
                      ELSE s2
            IN Out(s3, v.auth, "", "Card deleted successfully", TRUE, None, <<>>)

\* variant: a wallet still counts as locked at the instant its lockout ends
get_wallet_status_locked_at_expiry(self, user_id, t) ==
    IF user_id \notin DOMAIN self.wallets
    THEN Failure(self, "none", "Wallet not found")
    ELSE LET wallet == self.wallets[user_id]
         IN Out(self, "none", "", "", TRUE, None,
                <<[owner |-> wallet.owner,
                   cards_count |-> Len(wallet.cards),
                   failed_attempts |-> wallet.failed_attempts,
                   is_locked |-> t <= wallet.locked_until,
                   locked_until |-> IF wallet.locked_until > t
                                    THEN Some(wallet.locked_until) ELSE None]>>)

get_wallet_status(self, user_id, t) ==
    IF user_id \notin DOMAIN self.wallets
    THEN Failure(self, "none", "Wallet not found")
    ELSE LET wallet == self.wallets[user_id]
         IN Out(self, "none", "", "", TRUE, None,
                <<[owner |-> wallet.owner,
                   cards_count |-> Len(wallet.cards),
                   failed_attempts |-> wallet.failed_attempts,
                   is_locked |-> t < wallet.locked_until,
                   locked_until |-> IF wallet.locked_until > t
                                    THEN Some(wallet.locked_until) ELSE None]>>)

\* ------------------------------------------------------------ KMSKeyManager
\* The file-based fallback (KMS_ENDPOINT / KMS_MASTER_KEY_ID not configured).
\* self == [key_files, master_key_file, _key_cache]: the <kid>.json files of the
\* key store, the master.key file (None while it does not exist) and the
\* in-memory cache of plaintext keys.
Contexts == {None, Some("purpose=wallet"), Some("purpose=backup")}
GenerateContexts == {None, Some("purpose=wallet")}
Rand == {"0a", "0b"}
MasterKeys == {"m1", "m2"}

\* json.dumps(context or {}, sort_keys=True)
context_str(context) == IF context = None THEN "{}" ELSE context[1]

\* f"wallet-key-{int(time.time())}-{os.urandom(4).hex()}"
Kid(t, urandom) == <<"wallet-key", t, urandom>>

\* Fernet.generate_key() of the n-th key generated: 32 fresh random bytes
PlaintextKey(n) == <<"data-key", n>>

KmsOut(st, exc, kid, key, metadata) ==
    [st |-> st, exc |-> exc, kid |-> kid, key |-> key, metadata |-> metadata]

\* master.key is read if it exists, else written with os.urandom(32)
_get_local_master_key(self, urandom32) ==
    IF self.master_key_file # None
    THEN [st |-> self, master_key |-> self.master_key_file[1]]
    ELSE [st |-> [self EXCEPT !.master_key_file = Some(urandom32)], master_key |-> urandom32]

_encrypt_with_master_key(data, master_key, context) ==
    LET derived_key == pbkdf2_hmac(master_key, context_str(context))
    IN fernet_encrypt(derived_key, data)

_decrypt_with_master_key(encrypted_data, master_key, context) ==
    LET derived_key == pbkdf2_hmac(master_key, context_str(context))
    IN fernet_decrypt(derived_key, encrypted_data)

_generate_file_key(self, kid, context, t, plaintext_key, urandom32) ==
    LET m == _get_local_master_key(self, urandom32)
        encrypted_key == _encrypt_with_master_key(plaintext_key, m.master_key, context)
        metadata == [kid |-> kid, version |-> 1, algorithm |-> "AES-256-GCM",
                     created_at |-> t, rotated_at |-> None]
        key_data == [encrypted_key |-> encrypted_key,
                     metadata |-> [kid |-> kid, version |-> 1, algorithm |-> "AES-256-GCM",
                                   created_at |-> t,
                                   context |-> IF context = None THEN "{}" ELSE context[1],
                                   rotated_at |-> None]]
    IN KmsOut([m.st EXCEPT !.key_files = Put(@, kid, key_data)],
              "", Some(kid), Some(plaintext_key), Some(metadata))

generate_data_key(self, context, t, urandom, plaintext_key, urandom32) ==
    _generate_file_key(self, Kid(t, urandom), context, t, plaintext_key, urandom32)

_decrypt_file_key(self, kid, context, urandom32) ==
    IF kid \notin DOMAIN self.key_files
    THEN KmsOut(self, "ValueError", Some(kid), None, None)
    ELSE LET m == _get_local_master_key(self, urandom32)
             d == _decrypt_with_master_key(self.key_files[kid].encrypted_key, m.master_key, context)
         IN IF d.ok THEN KmsOut(m.st, "", Some(kid), Some(d.payload), None)
            ELSE KmsOut(m.st, "InvalidToken", Some(kid), None, None)

\* variant: the cache entry is written before the decryption is known to have worked
decrypt_data_key_caches_failure(self, kid, context, urandom32) ==
    IF kid \in DOMAIN self._key_cache
    THEN KmsOut(self, "", Some(kid), Some(self._key_cache[kid]), None)
    ELSE LET r == _decrypt_file_key(self, kid, context, urandom32)
         IN IF r.exc # ""
            THEN KmsOut([r.st EXCEPT !._key_cache = Put(@, kid, EmptyMap)], r.exc, Some(kid), None, None)
            ELSE KmsOut([r.st EXCEPT !._key_cache = Put(@, kid, r.key[1])],
                        "", Some(kid), r.key, None)

decrypt_data_key(self, kid, context, urandom32) ==
    IF kid \in DOMAIN self._key_cache
    THEN KmsOut(self, "", Some(kid), Some(self._key_cache[kid]), None)
    ELSE LET r == _decrypt_file_key(self, kid, context, urandom32)
         IN IF r.exc # "" THEN r
            ELSE KmsOut([r.st EXCEPT !._key_cache = Put(@, kid, r.key[1])],
                        "", Some(kid), r.key, None)

_mark_file_key_rotated(self, kid, t) ==
    IF kid \in DOMAIN self.key_files
    THEN [self EXCEPT !.key_files[kid].metadata.rotated_at = Some(t)]
    ELSE self

rotate_key(self, old_kid, t, urandom, plaintext_key, urandom32) ==
    LET g == generate_data_key(self, None, t, urandom, plaintext_key, urandom32)
    IN KmsOut(_mark_file_key_rotated(g.st, old_kid, t), "", g.kid, g.key, g.metadata)

list_keys(self) ==
    {[kid |-> self.key_files[k].metadata.kid,
      version |-> self.key_files[k].metadata.version,
      algorithm |-> self.key_files[k].metadata.algorithm,
      created_at |-> self.key_files[k].metadata.created_at,
      rotated_at |-> self.key_files[k].metadata.rotated_at] : k \in DOMAIN self.key_files}

\* ------------------------------------------------------------------ state
VARIABLES
    target,     \* the class the caller drives: "Wallet" or "CeloraWalletService"
    users,      \* the user ids the callers of the service act for
    now,        \* time.time()
    wallet,     \* the Wallet object
    wallets,    \* CeloraWalletService.wallets
    cards,      \* CeloraWalletService.cards
    last,       \* the most recent call and what it handed back
    streak,     \* per owner: failed PIN checks in a row since the last success (saturating)
    longest,    \* per owner: the longest such run since the wallet was created (saturating)
    pc,         \* per thread: where it stands inside its verify call
    loc,        \* per thread: the locals of its verify call
    _lock,      \* Wallet._lock: the thread holding it, or None
    mismatches, \* PIN mismatches found by the threads since the last success
    evaluated,  \* wrong PINs compared with the stored hash since the last success or lock
    supplied,   \* per stored card id: the card_number and expiry given to add_card
    key_files,        \* KMSKeyManager: the <kid>.json files under key_store_path
    master_key_file,  \* KMSKeyManager: the master.key file, None while absent
    _key_cache,       \* KMSKeyManager._key_cache
    issued,           \* what generate_data_key / rotate_key have returned, in order
    kms_last,         \* the most recent KMSKeyManager call and what it handed back
    card_in,          \* the card data handed to a validator
    checked,          \* the validator applied to card_in and what it returned
    log               \* the records the constructors have written to the log

threadVars == <<pc, loc, _lock, mismatches, evaluated>>
kmsVars == <<key_files, master_key_file, _key_cache, issued, kms_last>>
cardVars == <<card_in, checked>>
vars == <<target, users, now, wallet, wallets, cards, last, streak, longest, threadVars, supplied,
          kmsVars, cardVars, log>>

Threads == 1..NumThreads
NoLocals == [pin |-> Pin1, tmp |-> 0]
\* KMSKeyManager.__init__ on an empty key store
NoKeys ==
    /\ key_files = EmptyMap
    /\ master_key_file = None
    /\ _key_cache = EmptyMap
    /\ issued = <<>>
    /\ kms_last = [op |-> "init", kid |-> None, context |-> None, exc |-> "", key |-> None,
                   new_kid |-> None]

NoCard ==
    /\ card_in = GoodCard
    /\ checked = None
    /\ log = {}

NoThreads ==
    /\ pc = [t \in Threads |-> "idle"]
    /\ loc = [t \in Threads |-> NoLocals]
    /\ _lock = None
    /\ mismatches = 0
    /\ evaluated = 0

Users == Owners \cup {WalletOwner}
OptPins == {None} \cup {Some(p) : p \in Pins}
self == [wallets |-> wallets, cards |-> cards]

\* what is seen of a call: the operation, the owner, the PIN supplied, how the
\* PIN check went, the exception raised, whether it succeeded and the message
Observe(op, user, pin, r) ==
    [op |-> op, user |-> user, pin |-> pin, auth |-> r.auth, exc |-> r.exc, ok |-> r.ok,
     msg |-> r.msg]

Sat(n) == IF n > max_attempts THEN max_attempts ELSE n

\* bookkeeping of the runs of failed PIN checks
Count(user, auth) ==
    IF auth = "ok" THEN streak' = [streak EXCEPT ![user] = 0] /\ UNCHANGED longest
    ELSE IF auth \in {"mismatch", "locked"}
    THEN /\ streak' = [streak EXCEPT ![user] = Sat(@ + 1)]
         /\ longest' = [longest EXCEPT ![user] =
                           IF Sat(streak[user] + 1) > @ THEN Sat(streak[user] + 1) ELSE @]
    ELSE UNCHANGED <<streak, longest>>

Start ==
    /\ target \in {"Wallet", "CeloraWalletService"}
    /\ now = 1
    /\ \E salt \in Salts : wallet = Wallet__init__(WalletOwner, Pin1, salt)
    /\ wallets = EmptyMap
    /\ cards = EmptyMap
    /\ last = [op |-> "init", user |-> "", pin |-> None, auth |-> "none", exc |-> "", ok |-> TRUE, msg |-> ""]
    /\ streak = [u \in Users |-> 0]
    /\ longest = [u \in Users |-> 0]
    /\ NoThreads
    /\ supplied = EmptyMap
    /\ NoKeys
    /\ NoCard

\* callers acting for one user / for every user
Init == Start /\ users = {"alice"}
InitOwners ==
    /\ target = "CeloraWalletService"
    /\ users = Owners
    /\ now = MaxTime - 1
    /\ \E salt \in Salts :
          /\ wallet = Wallet__init__(WalletOwner, Pin1, salt)
          /\ wallets = create_wallet(create_wallet([wallets |-> EmptyMap, cards |-> EmptyMap],
                                                  "alice", Pin1, salt).st,
                                    "bob", Pin2, salt).st.wallets
    /\ cards = EmptyMap
    /\ last = [op |-> "init", user |-> "", pin |-> None, auth |-> "none", exc |-> "", ok |-> TRUE, msg |-> ""]
    /\ streak = [u \in Users |-> 0]
    /\ longest = [u \in Users |-> 0]
    /\ NoThreads
    /\ supplied = EmptyMap
    /\ NoKeys
    /\ NoCard

Tick ==
    /\ now < MaxTime
    /\ now' = now + 1
    /\ UNCHANGED <<target, users, wallet, wallets, cards, last, streak, longest, threadVars, supplied,
                   kmsVars, cardVars, log>>

\* ---- calls on the Wallet object
WalletStep(op, pin, r) ==
    /\ wallet' = r.st
    /\ last' = Observe(op, WalletOwner, pin, r)
    /\ Count(WalletOwner, r.auth)
    /\ IF op = "add_card" THEN TRUE ELSE UNCHANGED supplied
    /\ UNCHANGED <<target, users, now, wallets, cards, threadVars, kmsVars, cardVars, log>>

\* what add_card was given, kept per id for as long as the card is stored
Supply(r, card_id, card) ==
    supplied' = IF r.ok THEN Put(supplied, card_id, [card_number |-> card.card_number,
                                                   expiry |-> card.expiry])
                ELSE supplied

WalletCardIds == {wallet.cards[i].id : i \in 1..Len(wallet.cards)}

WalletVerify ==
    /\ target = "Wallet"
    /\ \E pincode \in Pins :
          WalletStep("verify", Some(pincode), _verify_pincode(wallet, pincode, now))

WalletAddCard ==
    /\ target = "Wallet"
    /\ \E card \in CardInputs, pincode \in OptPins, card_id \in CardIds \ WalletCardIds :
          LET r == Wallet_add_card(wallet, card, pincode, card_id, now)
          IN WalletStep("add_card", pincode, r) /\ Supply(r, card_id, card)

WalletListCards ==
    /\ target = "Wallet"
    /\ WalletStep("list_cards", None, Wallet_list_cards(wallet))

WalletGetCard ==
    /\ target = "Wallet"
    /\ \E card_id \in CardIds, pincode \in Pins :
          WalletStep("get_card", Some(pincode),
                     Wallet_get_card(wallet, card_id, pincode, now))

\* ---- calls on the service
ServiceStep(op, user_id, pin, r) ==
    /\ wallets' = r.st.wallets
    /\ cards' = r.st.cards
    /\ last' = Observe(op, user_id, pin, r)
    /\ IF op \in {"add_card", "delete_card"} THEN TRUE ELSE UNCHANGED supplied
    /\ UNCHANGED <<target, users, now, wallet, threadVars, kmsVars, cardVars, log>>

CreateWallet ==
    /\ target = "CeloraWalletService"
    /\ \E user_id \in users, pin \in CreatePins, salt \in Salts :
          LET r == create_wallet(self, user_id, pin, salt)
          IN /\ ServiceStep("create_wallet", user_id, Some(pin), r)
             /\ IF r.ok
                THEN /\ streak' = [streak EXCEPT ![user_id] = 0]
                     /\ longest' = [longest EXCEPT ![user_id] = 0]
                ELSE UNCHANGED <<streak, longest>>

VerifyPin ==
    /\ target = "CeloraWalletService"
    /\ \E user_id \in users, pin \in Pins :
          LET r == verify_pin(self, user_id, pin, now)
          IN ServiceStep("verify", user_id, Some(pin), r) /\ Count(user_id, r.auth)

AddCard ==
    /\ target = "CeloraWalletService"
    /\ \E user_id \in users, card_data \in CardInputs, pin \in Pins,
          card_id \in CardIds \ DOMAIN cards :
          LET r == add_card(self, user_id, card_data, pin, card_id, now)
          IN /\ ServiceStep("add_card", user_id, Some(pin), r)
             /\ Count(user_id, r.auth)
             /\ Supply(r, card_id, card_data)

GetCards ==
    /\ target = "CeloraWalletService"
    /\ \E user_id \in users, pin \in Pins :
          LET r == get_cards(self, user_id, pin, now)
          IN ServiceStep("list_cards", user_id, Some(pin), r) /\ Count(user_id, r.auth)

GetCardDetails ==
    /\ target = "CeloraWalletService"
    /\ \E user_id \in users, card_id \in CardIds, pin \in Pins :
          LET r == get_card_details(self, user_id, card_id, pin, now)
          IN ServiceStep("get_card", user_id, Some(pin), r)
             /\ Count(user_id, r.auth)

DeleteCard ==
    /\ target = "CeloraWalletService"
    /\ \E user_id \in users, card_id \in CardIds, pin \in Pins :
          LET r == delete_card(self, user_id, card_id, pin, now)
          IN /\ ServiceStep("delete_card", user_id, Some(pin), r)
             /\ Count(user_id, r.auth)
             /\ supplied' = IF r.ok THEN Del(supplied, card_id) ELSE supplied

GetWalletStatus ==
    /\ target = "CeloraWalletService"
    /\ \E user_id \in users :
          LET r == get_wallet_status(self, user_id, now)
          IN ServiceStep("status", user_id, None, r) /\ UNCHANGED <<streak, longest>>

Next ==
    \/ Tick
    \/ WalletVerify
    \/ WalletAddCard
    \/ WalletListCards
    \/ WalletGetCard
    \/ CreateWallet
    \/ VerifyPin
    \/ AddCard
    \/ GetCards
    \/ GetCardDetails
    \/ DeleteCard
    \/ GetWalletStatus

Spec == Init /\ [][Next]_vars

\* two users of the service, each with the wallet created for them
NextOwners ==
    \/ Tick
    \/ VerifyPin
    \/ AddCard
    \/ GetCardDetails
    \/ DeleteCard

SpecOwners == InitOwners /\ [][NextOwners]_vars

\* the passage of wall-clock time is the only thing assumed to go on
SpecTime == Spec /\ WF_vars(Tick)

\* ---------------------------------------------------- views of a wallet
HasWallet(u) == IF u = WalletOwner THEN target = "Wallet" ELSE u \in DOMAIN wallets
ActiveUsers == {u \in Users : HasWallet(u)}
FailedAttempts(u) == IF u = WalletOwner THEN wallet.failed_attempts ELSE wallets[u].failed_attempts
LockoutUntil(u) == IF u = WalletOwner THEN wallet.lockout_until ELSE wallets[u].locked_until
Locked(u) == now < LockoutUntil(u)
\* the PIN the wallet was created with
CorrectPin(u) == IF u = WalletOwner THEN wallet.pincode_hash[2].password
                 ELSE wallets[u].pin_hash[2].password
WrongPins(u) == Pins \ {CorrectPin(u)}

\* the cards of a user in a service state: the wallet's list and the stored cards it owns
ServiceCards(st, u) ==
    [list |-> st.wallets[u].cards,
     store |-> [id \in {c \in DOMAIN st.cards : st.cards[c].owner_id = u} |-> st.cards[id]]]
CardState(u) == IF u = WalletOwner THEN [list |-> wallet.cards, store |-> EmptyMap]
                ELSE ServiceCards(self, u)
NumCards(u) == Len(CardState(u).list)

\* a call's outcome, seen alike for both classes
View(u, r) ==
    [ok |-> r.ok, exc |-> r.exc, auth |-> r.auth, data |-> r.data,
     fa |-> IF u = WalletOwner THEN r.st.failed_attempts ELSE r.st.wallets[u].failed_attempts,
     lu |-> IF u = WalletOwner THEN r.st.lockout_until ELSE r.st.wallets[u].locked_until,
     cards |-> IF u = WalletOwner THEN [list |-> r.st.cards, store |-> EmptyMap]
               ELSE ServiceCards(r.st, u)]

\* verify(owner, pin) in the current state
Verify(u, pin) ==
    IF u = WalletOwner THEN View(u, _verify_pincode(wallet, pin, now))
    ELSE View(u, verify_pin(self, u, pin, now))

\* get_card / delete_card in the current state
GuardedCardCalls(u, card_id, pin) ==
    IF u = WalletOwner THEN {View(u, Wallet_get_card(wallet, card_id, pin, now))}
    ELSE {View(u, get_card_details(self, u, card_id, pin, now)),
          View(u, delete_card(self, u, card_id, pin, now))}

\* ------------------------------------------- threads verifying one PIN store
\* Several threads call verify for the same owner.  Wallet._verify_pincode runs
\* inside "with self._lock", so its body is one critical section;
\* CeloraWalletService.verify_pin takes no lock, so a thread switch may fall
\* between any two of its reads and writes of the wallet dict.
ThreadUser == IF target = "Wallet" THEN WalletOwner ELSE "alice"

InitThreads ==
    /\ target \in {"Wallet", "CeloraWalletService"}
    /\ users = {"alice"}
    /\ now = 1
    /\ \E salt \in Salts :
          /\ wallet = Wallet__init__(WalletOwner, Pin1, salt)
          /\ wallets = create_wallet([wallets |-> EmptyMap, cards |-> EmptyMap],
                                     "alice", Pin1, salt).st.wallets
    /\ cards = EmptyMap
    /\ last = [op |-> "init", user |-> "", pin |-> None, auth |-> "none", exc |-> "", ok |-> TRUE, msg |-> ""]
    /\ streak = [u \in Users |-> 0]
    /\ longest = [u \in Users |-> 0]
    /\ NoThreads
    /\ supplied = EmptyMap
    /\ NoKeys
    /\ NoCard

ThreadFrame ==
    UNCHANGED <<target, users, now, cards, last, streak, longest, supplied, kmsVars, cardVars, log>>
Goto(t, label) == pc' = [pc EXCEPT ![t] = label]
Return(t) == pc' = [pc EXCEPT ![t] = "idle"] /\ loc' = [loc EXCEPT ![t] = NoLocals]

\* a thread enters verify with some PIN
ThreadCall(t) ==
    /\ pc[t] = "idle"
    /\ \E pin \in Pins : loc' = [loc EXCEPT ![t] = [pin |-> pin, tmp |-> 0]]
    /\ Goto(t, IF target = "Wallet" THEN "acquire" ELSE "check")
    /\ UNCHANGED <<wallet, wallets, _lock, mismatches, evaluated>>
    /\ ThreadFrame

\* Wallet: with self._lock
WalletAcquire(t) ==
    /\ pc[t] = "acquire"
    /\ _lock = None
    /\ _lock' = Some(t)
    /\ Goto(t, "held")
    /\ UNCHANGED <<wallet, wallets, loc, mismatches, evaluated>>
    /\ ThreadFrame

\* Wallet: the body of _verify_pincode under the lock, and the release on leaving it
WalletBody(t) ==
    /\ pc[t] = "held"
    /\ _lock = Some(t)
    /\ LET r == _verify_pincode(wallet, loc[t].pin, now)
       IN /\ wallet' = r.st
          /\ mismatches' = IF r.auth = "ok" THEN 0
                           ELSE IF r.auth = "mismatch" THEN mismatches + 1 ELSE mismatches
          /\ evaluated' = IF r.auth = "ok" \/ r.st.lockout_until # wallet.lockout_until THEN 0
                          ELSE IF r.auth = "mismatch" THEN evaluated + 1 ELSE evaluated
    /\ _lock' = None
    /\ Return(t)
    /\ UNCHANGED wallets
    /\ ThreadFrame

\* service: if time.time() < wallet["locked_until"]: raise WalletLockedError
ServiceCheck(t) ==
    /\ pc[t] = "check"
    /\ IF now < wallets["alice"].locked_until
       THEN Return(t)
       ELSE Goto(t, "hash") /\ UNCHANGED loc
    /\ UNCHANGED <<wallet, wallets, _lock, mismatches, evaluated>>
    /\ ThreadFrame

\* service: is_valid = self._verify_pin_hash(pin, wallet["pin_hash"])
ServiceHash(t) ==
    /\ pc[t] = "hash"
    /\ LET is_valid == _verify_pin_hash(loc[t].pin, wallets["alice"].pin_hash)
       IN /\ Goto(t, IF is_valid THEN "reset" ELSE "load")
          /\ evaluated' = IF is_valid THEN evaluated ELSE evaluated + 1
    /\ UNCHANGED <<wallet, wallets, loc, _lock, mismatches>>
    /\ ThreadFrame

\* service: wallet["failed_attempts"] = 0; return True
ServiceReset(t) ==
    /\ pc[t] = "reset"
    /\ wallets' = [wallets EXCEPT !["alice"].failed_attempts = 0]
    /\ mismatches' = 0
    /\ evaluated' = 0
    /\ Return(t)
    /\ UNCHANGED <<wallet, _lock>>
    /\ ThreadFrame

\* service: wallet["failed_attempts"] += 1, the read of the old value
ServiceLoad(t) ==
    /\ pc[t] = "load"
    /\ loc' = [loc EXCEPT ![t].tmp = wallets["alice"].failed_attempts]
    /\ Goto(t, "store")
    /\ UNCHANGED <<wallet, wallets, _lock, mismatches, evaluated>>
    /\ ThreadFrame

\* service: wallet["failed_attempts"] += 1, the write of the new value
ServiceStore(t) ==
    /\ pc[t] = "store"
    /\ wallets' = [wallets EXCEPT !["alice"].failed_attempts = loc[t].tmp + 1]
    /\ mismatches' = mismatches + 1
    /\ Goto(t, "compare")
    /\ UNCHANGED <<wallet, loc, _lock, evaluated>>
    /\ ThreadFrame

\* service: if wallet["failed_attempts"] >= wallet["max_attempts"]: ... else return False
ServiceCompare(t) ==
    /\ pc[t] = "compare"
    /\ IF wallets["alice"].failed_attempts >= wallets["alice"].max_attempts
       THEN Goto(t, "lock") /\ UNCHANGED loc
       ELSE Return(t)
    /\ UNCHANGED <<wallet, wallets, _lock, mismatches, evaluated>>
    /\ ThreadFrame

\* service: wallet["locked_until"] = time.time() + lockout_seconds; raise WalletLockedError
ServiceLock(t) ==
    /\ pc[t] = "lock"
    /\ wallets' = [wallets EXCEPT !["alice"].locked_until = now + wallets["alice"].lockout_seconds]
    /\ evaluated' = 0
    /\ Return(t)
    /\ UNCHANGED <<wallet, _lock, mismatches>>
    /\ ThreadFrame

NextThreads ==
    \/ Tick
    \/ \E t \in Threads : ThreadCall(t)
    \/ \E t \in Threads : WalletAcquire(t)
    \/ \E t \in Threads : WalletBody(t)
    \/ \E t \in Threads : ServiceCheck(t)
    \/ \E t \in Threads : ServiceHash(t)
    \/ \E t \in Threads : ServiceReset(t)
    \/ \E t \in Threads : ServiceLoad(t)
    \/ \E t \in Threads : ServiceStore(t)
    \/ \E t \in Threads : ServiceCompare(t)
    \/ \E t \in Threads : ServiceLock(t)

SpecThreads == InitThreads /\ [][NextThreads]_vars


\* ------------------------------------------ threads changing one card list
\* Several threads call add_card and delete_card for the same owner.  Each PIN
\* check is taken as one step here (its own interleavings are those of
\* SpecThreads); the reads and writes of the card store and of the card list
\* that follow it are separate steps.  Wallet.add_card appends inside
\* "with self._lock"; the service takes no lock.
CardFrame ==
    UNCHANGED <<target, users, now, last, streak, longest, _lock, mismatches, evaluated, kmsVars,
                cardVars, log>>

\* ids that secrets.token_hex(8) drew earlier and that are still held somewhere:
\* in the store, in a card list, or in the locals of a call in progress
IdsInUse ==
    DOMAIN cards \cup WalletCardIds
    \cup UNION {{w.cards[i] : i \in 1..Len(w.cards)} : w \in {wallets[u] : u \in DOMAIN wallets}}
    \cup UNION {{loc[t].card_id} \cup {loc[t].tmp[i] : i \in 1..Len(loc[t].tmp)} :
                t \in {x \in Threads : pc[x] # "idle"}}

\* a thread enters add_card with a card, a PIN and the id it will draw
CardAddCall(t) ==
    /\ pc[t] = "idle"
    /\ \E pin \in Pins, card \in CardInputs,
          card_id \in CardIds \ IdsInUse :
          loc' = [loc EXCEPT ![t] = [pin |-> pin, tmp |-> <<>>, card_id |-> card_id, card |-> card]]
    /\ Goto(t, "add_verify")
    /\ UNCHANGED <<wallet, wallets, cards, supplied>>
    /\ CardFrame

\* a thread enters delete_card for a card whose add_card has returned
CardDeleteCall(t) ==
    /\ pc[t] = "idle"
    /\ target = "CeloraWalletService"
    /\ \E pin \in Pins, card_id \in DOMAIN supplied :
          loc' = [loc EXCEPT ![t] = [pin |-> pin, tmp |-> <<>>, card_id |-> card_id, card |-> GoodCard]]
    /\ Goto(t, "delete_verify")
    /\ UNCHANGED <<wallet, wallets, cards, supplied>>
    /\ CardFrame

\* Wallet.add_card: the PIN check and the validation of the card
WalletAddVerify(t) ==
    /\ pc[t] = "add_verify"
    /\ target = "Wallet"
    /\ LET r == Wallet_add_card(wallet, loc[t].card, Some(loc[t].pin), loc[t].card_id, now)
           v == _verify_pincode(wallet, loc[t].pin, now)
       IN /\ wallet' = v.st
          /\ IF r.ok THEN Goto(t, "add_append") /\ UNCHANGED loc ELSE Return(t)
    /\ UNCHANGED <<wallets, cards, supplied>>
    /\ CardFrame

\* Wallet.add_card: with self._lock: self.cards.append(card)
WalletAddAppend(t) ==
    /\ pc[t] = "add_append"
    /\ target = "Wallet"
    /\ LET payload == [card_number |-> loc[t].card.card_number, expiry |-> loc[t].card.expiry]
           vc == [id |-> loc[t].card_id, encrypted |-> fernet_encrypt(wallet.fernet, payload)]
       IN wallet' = [wallet EXCEPT !.cards = Append(@, vc)]
    /\ supplied' = Put(supplied, loc[t].card_id, [card_number |-> loc[t].card.card_number,
                                                 expiry |-> loc[t].card.expiry])
    /\ Return(t)
    /\ UNCHANGED <<wallets, cards>>
    /\ CardFrame

\* service add_card: verify_pin and _validate_card_data
ServiceAddVerify(t) ==
    /\ pc[t] = "add_verify"
    /\ target = "CeloraWalletService"
    /\ LET v == verify_pin(self, "alice", loc[t].pin, now)
       IN /\ wallets' = v.st.wallets
          /\ IF v.ok /\ v.exc = "" /\ _validate_card_data(loc[t].card) = ""
             THEN Goto(t, "add_store") /\ UNCHANGED loc
             ELSE Return(t)
    /\ UNCHANGED <<wallet, cards, supplied>>
    /\ CardFrame

\* service add_card: self.cards[card_id] = encrypted_card
ServiceAddStore(t) ==
    /\ pc[t] = "add_store"
    /\ LET card_data == loc[t].card
           card_payload == [card_number |-> card_data.card_number,
                            expiry |-> card_data.expiry,
                            cvv |-> card_data.cvv[1],
                            cardholder_name |-> ""]
           encrypted_card == [id |-> loc[t].card_id,
                              owner_id |-> "alice",
                              encrypted_data |-> fernet_encrypt(ServiceKey, card_payload),
                              status |-> "active"]
       IN cards' = Put(cards, loc[t].card_id, encrypted_card)
    /\ Goto(t, "add_append")
    /\ UNCHANGED <<wallet, wallets, loc, supplied>>
    /\ CardFrame

\* service add_card: self.wallets[user_id]["cards"].append(card_id); return success
ServiceAddAppend(t) ==
    /\ pc[t] = "add_append"
    /\ target = "CeloraWalletService"
    /\ wallets' = [wallets EXCEPT !["alice"].cards = Append(@, loc[t].card_id)]
    /\ supplied' = Put(supplied, loc[t].card_id, [card_number |-> loc[t].card.card_number,
                                                 expiry |-> loc[t].card.expiry])
    /\ Return(t)
    /\ UNCHANGED <<wallet, cards>>
    /\ CardFrame

\* service delete_card: verify_pin, card_id in self.cards, card.owner_id == user_id
ServiceDeleteVerify(t) ==
    /\ pc[t] = "delete_verify"
    /\ LET v == verify_pin(self, "alice", loc[t].pin, now)
       IN /\ wallets' = v.st.wallets
          /\ IF /\ v.ok /\ v.exc = ""
                /\ loc[t].card_id \in DOMAIN cards
                /\ cards[loc[t].card_id].owner_id = "alice"
             THEN Goto(t, "delete_store") /\ UNCHANGED loc
             ELSE Return(t)
    /\ UNCHANGED <<wallet, cards, supplied>>
    /\ CardFrame

\* service delete_card: del self.cards[card_id] (a KeyError ends the call in the except-branch)
ServiceDeleteStore(t) ==
    /\ pc[t] = "delete_store"
    /\ IF loc[t].card_id \in DOMAIN cards
       THEN cards' = Del(cards, loc[t].card_id) /\ Goto(t, "delete_read") /\ UNCHANGED loc
       ELSE UNCHANGED cards /\ Return(t)
    /\ UNCHANGED <<wallet, wallets, supplied>>
    /\ CardFrame

\* service delete_card: [cid for cid in self.wallets[user_id]["cards"] if cid != card_id]
ServiceDeleteRead(t) ==
    /\ pc[t] = "delete_read"
    /\ loc' = [loc EXCEPT ![t].tmp = SelectSeq(wallets["alice"].cards,
                                                LAMBDA cid : cid # loc[t].card_id)]
    /\ Goto(t, "delete_write")
    /\ UNCHANGED <<wallet, wallets, cards, supplied>>
    /\ CardFrame

\* service delete_card: self.wallets[user_id]["cards"] = the filtered list; return success
ServiceDeleteWrite(t) ==
    /\ pc[t] = "delete_write"
    /\ wallets' = [wallets EXCEPT !["alice"].cards = loc[t].tmp]
    /\ supplied' = Del(supplied, loc[t].card_id)
    /\ Return(t)
    /\ UNCHANGED <<wallet, cards>>
    /\ CardFrame

NextCardThreads ==
    \/ Tick
    \/ \E t \in Threads : CardAddCall(t)
    \/ \E t \in Threads : CardDeleteCall(t)
    \/ \E t \in Threads : WalletAddVerify(t)
    \/ \E t \in Threads : WalletAddAppend(t)
    \/ \E t \in Threads : ServiceAddVerify(t)
    \/ \E t \in Threads : ServiceAddStore(t)
    \/ \E t \in Threads : ServiceAddAppend(t)
    \/ \E t \in Threads : ServiceDeleteVerify(t)
    \/ \E t \in Threads : ServiceDeleteStore(t)
    \/ \E t \in Threads : ServiceDeleteRead(t)
    \/ \E t \in Threads : ServiceDeleteWrite(t)

SpecCardThreads == InitThreads /\ [][NextCardThreads]_vars

\* ------------------------------------------------- calls on KMSKeyManager
KmsSelf == [key_files |-> key_files, master_key_file |-> master_key_file, _key_cache |-> _key_cache]
WalletFrame ==
    UNCHANGED <<target, users, now, wallet, wallets, cards, last, streak, longest, threadVars, supplied,
                cardVars, log>>

InitKms ==
    /\ target = "KMSKeyManager"
    /\ users = {}
    /\ now = MaxTime - 1
    /\ \E salt \in Salts : wallet = Wallet__init__(WalletOwner, Pin1, salt)
    /\ wallets = EmptyMap
    /\ cards = EmptyMap
    /\ last = [op |-> "init", user |-> "", pin |-> None, auth |-> "none", exc |-> "", ok |-> TRUE, msg |-> ""]
    /\ streak = [u \in Users |-> 0]
    /\ longest = [u \in Users |-> 0]
    /\ NoThreads
    /\ supplied = EmptyMap
    /\ NoKeys
    /\ NoCard

\* the kids a caller holds, and one that was never issued
KnownKids == DOMAIN key_files \cup {Kid(0, "0a")}

KmsStep(op, kid, context, r) ==
    /\ key_files' = r.st.key_files
    /\ master_key_file' = r.st.master_key_file
    /\ _key_cache' = r.st._key_cache
    /\ kms_last' = [op |-> op, kid |-> kid, context |-> context, exc |-> r.exc, key |-> r.key,
                    new_kid |-> IF op = "decrypt_data_key" THEN None ELSE r.kid]
    /\ issued' = IF op = "decrypt_data_key" THEN issued
                 ELSE Append(issued, [kid |-> r.kid[1], key |-> r.key[1],
                                      context |-> IF op = "rotate_key" THEN None ELSE context,
                                      created_at |-> r.metadata[1].created_at])
    /\ WalletFrame

GenerateDataKey ==
    /\ target = "KMSKeyManager"
    /\ Len(issued) < MaxKeys
    /\ \E context \in GenerateContexts, urandom \in Rand, urandom32 \in MasterKeys :
          KmsStep("generate_data_key", None, context,
                  generate_data_key(KmsSelf, context, now, urandom,
                                    PlaintextKey(Len(issued) + 1), urandom32))

DecryptDataKey ==
    /\ target = "KMSKeyManager"
    /\ \E kid \in KnownKids, context \in Contexts, urandom32 \in MasterKeys :
          KmsStep("decrypt_data_key", Some(kid), context,
                  decrypt_data_key(KmsSelf, kid, context, urandom32))

RotateKey ==
    /\ target = "KMSKeyManager"
    /\ Len(issued) < MaxKeys
    /\ \E old_kid \in KnownKids, urandom \in Rand, urandom32 \in MasterKeys :
          KmsStep("rotate_key", Some(old_kid), None,
                  rotate_key(KmsSelf, old_kid, now, urandom,
                             PlaintextKey(Len(issued) + 1), urandom32))

ListKeys ==
    /\ target = "KMSKeyManager"
    /\ kms_last' = [op |-> "list_keys", kid |-> None, context |-> None, exc |-> "", key |-> None,
                    new_kid |-> None]
    /\ UNCHANGED <<key_files, master_key_file, _key_cache, issued>>
    /\ WalletFrame

\* a new process: KMSKeyManager.__init__ starts with an empty cache over the same key store
KMSKeyManager__init__ ==
    /\ target = "KMSKeyManager"
    /\ _key_cache # EmptyMap
    /\ _key_cache' = EmptyMap
    /\ kms_last' = [op |-> "init", kid |-> None, context |-> None, exc |-> "", key |-> None,
                    new_kid |-> None]
    /\ UNCHANGED <<key_files, master_key_file, issued>>
    /\ WalletFrame

NextKms ==
    \/ Tick
    \/ GenerateDataKey
    \/ DecryptDataKey
    \/ RotateKey
    \/ ListKeys
    \/ KMSKeyManager__init__
SpecKms == InitKms /\ [][NextKms]_vars

\* --------------------------------------- threads sharing one KMSKeyManager
\* KMSKeyManager holds no lock. Each thread runs generate_data_key or decrypt_data_key one
\* statement group at a time; a dict lookup, a dict store and a whole-file read or write
\* are single steps.
KmsThreadFrame ==
    UNCHANGED <<target, users, now, wallet, wallets, cards, last, streak, longest, supplied,
                _lock, mismatches, evaluated, cardVars, log>>
Generating == {t \in Threads : pc[t] \in {"master_exists", "master_write", "generate_store"}}
KmsReturn(t, op, exc, key, new_kid) ==
    /\ kms_last' = [op |-> op, kid |-> IF op = "decrypt_data_key" THEN Some(loc[t].kid) ELSE None,
                    context |-> loc[t].context, exc |-> exc, key |-> key, new_kid |-> new_kid]
    /\ Return(t)

\* l.94: a thread enters decrypt_data_key
KmsDecryptCall(t) ==
    /\ pc[t] = "idle"
    /\ \E kid \in KnownKids, context \in GenerateContexts :
          loc' = [loc EXCEPT ![t] = [pin |-> Pin1, tmp |-> None, kid |-> kid, context |-> context]]
    /\ Goto(t, "decrypt_lookup")
    /\ UNCHANGED kmsVars
    /\ KmsThreadFrame

\* l.96-97: if kid in self._key_cache: return self._key_cache[kid]
KmsDecryptLookup(t) ==
    /\ pc[t] = "decrypt_lookup"
    /\ IF loc[t].kid \in DOMAIN _key_cache
       THEN KmsReturn(t, "decrypt_data_key", "", Some(_key_cache[loc[t].kid]), None)
       ELSE Goto(t, "decrypt_file") /\ UNCHANGED <<loc, kms_last>>
    /\ UNCHANGED <<key_files, master_key_file, _key_cache, issued>>
    /\ KmsThreadFrame

\* l.100: key = self._decrypt_file_key(kid, context)
KmsDecryptFile(t) ==
    /\ pc[t] = "decrypt_file"
    /\ \E urandom32 \in MasterKeys :
          LET r == _decrypt_file_key(KmsSelf, loc[t].kid, loc[t].context, urandom32)
          IN /\ master_key_file' = r.st.master_key_file
             /\ IF r.exc # ""
                THEN KmsReturn(t, "decrypt_data_key", r.exc, None, None)
                ELSE /\ loc' = [loc EXCEPT ![t].tmp = r.key]
                     /\ Goto(t, "decrypt_insert")
                     /\ UNCHANGED kms_last
    /\ UNCHANGED <<key_files, _key_cache, issued>>
    /\ KmsThreadFrame

\* variant: the insert writes back a dict that holds this entry alone
KmsDecryptInsert_rebuilds(t) ==
    /\ pc[t] = "decrypt_insert"
    /\ _key_cache' = Put(EmptyMap, loc[t].kid, loc[t].tmp[1])
    /\ KmsReturn(t, "decrypt_data_key", "", loc[t].tmp, None)
    /\ UNCHANGED <<key_files, master_key_file, issued>>
    /\ KmsThreadFrame

\* l.105-106: self._key_cache[kid] = key; return key
KmsDecryptInsert(t) ==
    /\ pc[t] = "decrypt_insert"
    /\ _key_cache' = Put(_key_cache, loc[t].kid, loc[t].tmp[1])
    /\ KmsReturn(t, "decrypt_data_key", "", loc[t].tmp, None)
    /\ UNCHANGED <<key_files, master_key_file, issued>>
    /\ KmsThreadFrame

\* l.45, l.55: a thread enters generate_data_key, draws its kid and its plaintext key
KmsGenerateCall(t) ==
    /\ pc[t] = "idle"
    /\ Len(issued) + Cardinality(Generating) < MaxKeys
    /\ \E context \in GenerateContexts, urandom \in Rand :
          loc' = [loc EXCEPT ![t] = [pin |-> Pin1, tmp |-> None, kid |-> Kid(now, urandom),
                                     context |-> context, created_at |-> now,
                                     plaintext_key |-> PlaintextKey(Len(issued) + Cardinality(Generating) + 1)]]
    /\ Goto(t, "master_exists")
    /\ UNCHANGED kmsVars
    /\ KmsThreadFrame

\* l.155-157: if os.path.exists(master_key_file): return f.read()
KmsMasterExists(t) ==
    /\ pc[t] = "master_exists"
    /\ IF master_key_file # None
       THEN loc' = [loc EXCEPT ![t].tmp = master_key_file] /\ Goto(t, "generate_store")
       ELSE Goto(t, "master_write") /\ UNCHANGED loc
    /\ UNCHANGED kmsVars
    /\ KmsThreadFrame

\* l.160-165: master_key = os.urandom(32); write master.key; return master_key
KmsMasterWrite(t) ==
    /\ pc[t] = "master_write"
    /\ \E urandom32 \in MasterKeys :
          /\ master_key_file' = Some(urandom32)
          /\ loc' = [loc EXCEPT ![t].tmp = Some(urandom32)]
    /\ Goto(t, "generate_store")
    /\ UNCHANGED <<key_files, _key_cache, issued, kms_last>>
    /\ KmsThreadFrame

\* l.59-85: encrypt under the master key this thread holds, write <kid>.json, return
KmsGenerateStore(t) ==
    /\ pc[t] = "generate_store"
    /\ LET r == _generate_file_key([KmsSelf EXCEPT !.master_key_file = loc[t].tmp], loc[t].kid,
                                   loc[t].context, loc[t].created_at, loc[t].plaintext_key,
                                   loc[t].tmp[1])
       IN /\ key_files' = r.st.key_files
          /\ issued' = Append(issued, [kid |-> loc[t].kid, key |-> loc[t].plaintext_key,
                                       context |-> loc[t].context,
                                       created_at |-> loc[t].created_at])
          /\ KmsReturn(t, "generate_data_key", "", r.key, r.kid)
    /\ UNCHANGED <<master_key_file, _key_cache>>
    /\ KmsThreadFrame

\* threads decrypting over a key store that holds two generated keys
InitKmsCache ==
    /\ target = "KMSKeyManager"
    /\ users = {}
    /\ now = MaxTime - 1
    /\ \E salt \in Salts : wallet = Wallet__init__(WalletOwner, Pin1, salt)
    /\ wallets = EmptyMap
    /\ cards = EmptyMap
    /\ last = [op |-> "init", user |-> "", pin |-> None, auth |-> "none", exc |-> "", ok |-> TRUE, msg |-> ""]
    /\ streak = [u \in Users |-> 0]
    /\ longest = [u \in Users |-> 0]
    /\ NoThreads
    /\ supplied = EmptyMap
    /\ NoCard
    /\ \E urandom \in Rand, urandom32 \in MasterKeys :
          LET c1 == None
              c2 == Some("purpose=wallet")
              u1 == urandom
              u2 == urandom
              empty == [key_files |-> EmptyMap, master_key_file |-> None, _key_cache |-> EmptyMap]
              g1 == generate_data_key(empty, c1, now - 1, u1, PlaintextKey(1), urandom32)
              g2 == generate_data_key(g1.st, c2, now, u2, PlaintextKey(2), urandom32)
          IN /\ key_files = g2.st.key_files
             /\ master_key_file = g2.st.master_key_file
             /\ _key_cache = EmptyMap
             /\ issued = <<[kid |-> g1.kid[1], key |-> g1.key[1], context |-> c1, created_at |-> now - 1],
                           [kid |-> g2.kid[1], key |-> g2.key[1], context |-> c2, created_at |-> now]>>
             /\ kms_last = [op |-> "generate_data_key", kid |-> None, context |-> c2, exc |-> "",
                            key |-> g2.key, new_kid |-> g2.kid]

NextKmsCache ==
    \/ \E t \in Threads : KmsDecryptCall(t)
    \/ \E t \in Threads : KmsDecryptLookup(t)
    \/ \E t \in Threads : KmsDecryptFile(t)
    \/ \E t \in Threads : KmsDecryptInsert(t)
SpecKmsCache == InitKmsCache /\ [][NextKmsCache]_vars

\* threads generating on a key store that starts empty
NextKmsMaster ==
    \/ Tick
    \/ \E t \in Threads : KmsGenerateCall(t)
    \/ \E t \in Threads : KmsMasterExists(t)
    \/ \E t \in Threads : KmsMasterWrite(t)
    \/ \E t \in Threads : KmsGenerateStore(t)
SpecKmsMaster == InitKms /\ [][NextKmsMaster]_vars

\* ------------------------------------------- card validation on its inputs
\* 16-digit numbers around the known vector, numbers of other lengths, expiries around
\* the current month and CVVs of every shape
OneOffNumbers == {[GoodNumber EXCEPT ![i] = d] : i \in 1..16, d \in DigitChars}
AlternatingNumbers == {[i \in 1..16 |-> IF i % 2 = 1 THEN a ELSE b] : a, b \in DigitChars}
OtherLengthNumbers == {<<"0","0","0","0">>, <<"1","8">>, <<"0","0","0","0","0">>, OtherNumber}
ProbeNumbers == OneOffNumbers \cup AlternatingNumbers \cup OtherLengthNumbers
GoodExpiry == <<"1","2","/","3","0">>
ProbeExpiries ==
    {<<"1","1","/","2","6">>, <<"1","0","/","2","6">>, <<"1","2","/","2","5">>,
     <<"0","1","/","2","0">>, <<"0","1","/","2","7">>, GoodExpiry,
     <<"0","0","/","3","0">>, <<"1","3","/","3","0">>,
     <<"1","1","/","2","0","2","6">>, <<"1","0","/","2","0","2","6">>,
     <<"1","2","/","2","0","2","5">>, <<"0","1","/","2","0","3","1">>,
     <<"1","3","/","2","0","3","0">>, <<"1","2","/","0","0","3","0">>, <<"1","2","3","0">>, <<"1","2","/","3","0","/","1">>,
     <<"a","b","/","3","0">>}
ProbeCvvs ==
    {None, Some(<<"1","2","3">>), Some(<<"1","2","3","4">>), Some(<<"1","2">>),
     Some(<<"1","2","3","4","5">>), Some(<<"1","2","a">>), Some(<<>>)}
ProbeCards ==
    {[card_number |-> n, expiry |-> GoodExpiry, cvv |-> c] :
        n \in ProbeNumbers, c \in {None, Some(<<"1","2","3">>)}}
    \cup {[card_number |-> GoodNumber, expiry |-> e, cvv |-> c] :
             e \in ProbeExpiries, c \in ProbeCvvs}

\* a wallet and a service wallet of one owner, holding no card yet
NewWallet == Wallet__init__(WalletOwner, Pin1, CHOOSE salt \in Salts : TRUE)
NewService ==
    create_wallet([wallets |-> EmptyMap, cards |-> EmptyMap], "alice", Pin1,
                  CHOOSE salt \in Salts : TRUE).st

InitCard ==
    /\ target = "validators"
    /\ users = {}
    /\ now = 1
    /\ \E salt \in Salts : wallet = Wallet__init__(WalletOwner, Pin1, salt)
    /\ wallets = EmptyMap
    /\ cards = EmptyMap
    /\ last = [op |-> "init", user |-> "", pin |-> None, auth |-> "none", exc |-> "", ok |-> TRUE, msg |-> ""]
    /\ streak = [u \in Users |-> 0]
    /\ longest = [u \in Users |-> 0]
    /\ NoThreads
    /\ supplied = EmptyMap
    /\ NoKeys
    /\ card_in \in ProbeCards
    /\ checked = None
    /\ log = {}

CardProbeFrame ==
    UNCHANGED <<target, users, now, wallet, wallets, cards, last, streak, longest, threadVars, supplied,
                kmsVars, card_in, log>>
Check(op, out) ==
    /\ checked' = Some([op |-> op, out |-> out])
    /\ CardProbeFrame

LuhnValid ==
    /\ target = "validators"
    /\ Check("_luhn_valid", _luhn_valid(card_in.card_number))
LuhnValidate ==
    /\ target = "validators"
    /\ Check("_luhn_validate", _luhn_validate(card_in.card_number))
ValidateExpiry ==
    /\ target = "validators"
    /\ Check("_validate_expiry", _validate_expiry(card_in.expiry))
ServiceValidateExpiry ==
    /\ target = "validators"
    /\ Check("CeloraWalletService._validate_expiry", Service_validate_expiry(card_in.expiry))
ValidateCardData ==
    /\ target = "validators"
    /\ Check("_validate_card_data", _validate_card_data(card_in))
MaskCardNumber ==
    /\ target = "validators"
    /\ Check("_mask_card_number", _mask_card_number(card_in.card_number))
ServiceMaskCardNumber ==
    /\ target = "validators"
    /\ Check("EncryptedCard._mask_card_number", EncryptedCard_mask_card_number(card_in.card_number))

\* wallet.add_card(**card) followed by wallet.list_cards()
WalletAddThenList ==
    /\ target = "validators"
    /\ LET r == Wallet_add_card(NewWallet, card_in, Some(Pin1), "c1", now)
       IN Check("Wallet.add_card", [ok |-> r.ok, msg |-> r.msg, stored |-> r.st.cards,
                                    views |-> Wallet_list_cards(r.st).data])

\* service.add_card(user, card, pin) followed by service.get_cards(user, pin)
ServiceAddThenList ==
    /\ target = "validators"
    /\ LET r == add_card(NewService, "alice", card_in, Pin1, "c1", now)
       IN Check("CeloraWalletService.add_card",
                [ok |-> r.ok, msg |-> r.msg, stored |-> r.st.cards,
                 listed |-> r.st.wallets["alice"].cards,
                 views |-> get_cards(r.st, "alice", Pin1, now).data])

NextCard ==
    \/ LuhnValid
    \/ LuhnValidate
    \/ ValidateExpiry
    \/ ServiceValidateExpiry
    \/ ValidateCardData
    \/ MaskCardNumber
    \/ ServiceMaskCardNumber
    \/ WalletAddThenList
    \/ ServiceAddThenList
SpecCard == InitCard /\ [][NextCard]_vars

\* ------------------------------------------------------------------ claims

\* C1: while now < lockout_until every verify fails with LockedError, the correct
\* PIN included; and the failed call that completes a run of max_attempts failed
\* calls leaves the wallet locked.
C1_LockedRejectsEveryPin ==
    \A u \in ActiveUsers : \A pin \in Pins :
        LET r == Verify(u, pin)
        IN /\ Locked(u) => (r.exc = "WalletLockedError" /\ ~r.ok)
           /\ (~r.ok /\ Sat(streak[u] + 1) >= max_attempts) => now < r.lu

C1_Witness ==
    /\ last.op = "verify"
    /\ last.auth = "locked"
    /\ last.exc = "WalletLockedError"
    /\ last.pin = Some(CorrectPin(last.user))
    /\ streak[last.user] >= max_attempts
    /\ Locked(last.user)

\* C2: once now >= lockout_until a verify with the correct PIN succeeds and
\* leaves failed_attempts = 0; time passing alone brings a locked wallet there.
C2_Accepts(u) == HasWallet(u) /\ Verify(u, CorrectPin(u)).ok

C2_UnlockedAcceptsCorrectPin ==
    /\ [](\A u \in ActiveUsers :
            ~Locked(u) => LET r == Verify(u, CorrectPin(u))
                          IN r.ok /\ r.exc = "" /\ r.fa = 0)
    /\ \A u \in Users :
          (HasWallet(u) /\ Locked(u) /\ LockoutUntil(u) <= MaxTime) ~> C2_Accepts(u)

C2_Witness ==
    /\ last.op = "verify"
    /\ last.auth = "ok"
    /\ LockoutUntil(last.user) > 0
    /\ now >= LockoutUntil(last.user)
    /\ longest[last.user] >= max_attempts
    /\ FailedAttempts(last.user) = 0

\* C3: the failed verify that brings failed_attempts up to max_attempts sets
\* lockout_until = now + lockout_seconds and itself fails with LockedError.
C3_LockingAttemptRaises ==
    \A u \in ActiveUsers : \A pin \in WrongPins(u) :
        (~Locked(u) /\ FailedAttempts(u) + 1 = max_attempts) =>
            LET r == Verify(u, pin)
            IN r.exc = "WalletLockedError" /\ r.lu = now + lockout_seconds

\* C4: after a lockout window has elapsed a single wrong PIN returns false and
\* does not lock the wallet again (max_attempts > 1).
C4_SingleFailureAfterUnlock ==
    \A u \in ActiveUsers : \A pin \in WrongPins(u) :
        (max_attempts > 1 /\ last.user = u /\ last.auth = "locked" /\ ~Locked(u)) =>
            LET r == Verify(u, pin)
            IN r.exc = "" /\ ~r.ok /\ r.lu = LockoutUntil(u)

\* C5: a successful verify leaves failed_attempts = 0, and a wallet is locked
\* only after a run of at least max_attempts failed PIN checks in a row.
C5_FailuresDoNotAccumulate ==
    \A u \in ActiveUsers :
        /\ LockoutUntil(u) # 0 => longest[u] >= max_attempts
        /\ \A pin \in Pins : LET r == Verify(u, pin) IN r.ok => r.fa = 0

C5_Witness ==
    /\ last.auth = "mismatch"
    /\ HasWallet(last.user)
    /\ streak[last.user] >= 1
    /\ streak[last.user] < longest[last.user]
    /\ streak[last.user] + longest[last.user] >= max_attempts
    /\ LockoutUntil(last.user) = 0

\* C6: every step that changes a wallet's lockout_until is a failed PIN check
\* after which failed_attempts >= max_attempts.
C6_LockoutSetOnlyByFailure ==
    [][\A u \in Users :
          (HasWallet(u) /\ HasWallet(u)' /\ LockoutUntil(u)' # LockoutUntil(u)) =>
              (last'.user = u /\ last'.auth = "mismatch"
               /\ FailedAttempts(u)' >= max_attempts)]_vars

\* C7: verify calls of several threads for one owner are atomic for the attempt
\* counter and the lockout decision: failed_attempts is the number of mismatches
\* since the last success, and no more than max_attempts wrong PINs are compared
\* with the stored hash before the wallet is locked.
C7_VerifyIsAtomic ==
    /\ FailedAttempts(ThreadUser) = mismatches
    /\ evaluated <= max_attempts

\* C8: a card is added to a wallet only by an add_card that verified the correct
\* PIN in the same call.
C8_AddOnlyAfterVerify ==
    [][\A u \in Users :
          (HasWallet(u) /\ HasWallet(u)' /\ NumCards(u)' > NumCards(u)) =>
              (last'.op = "add_card" /\ last'.user = u /\ last'.auth = "ok")]_vars

\* C9: add_card, get_card and delete_card called while the wallet is locked fail
\* and leave the cards as they were.
C9_LockedWalletRefusesCardCalls ==
    [][\A u \in Users :
          (HasWallet(u) /\ Locked(u) /\ last' # last /\ last'.user = u
           /\ last'.op \in {"add_card", "get_card", "delete_card"}) =>
              (~last'.ok /\ CardState(u)' = CardState(u))]_vars

\* C10: get_card and delete_card with a wrong PIN hand back nothing, remove
\* nothing, and count as a failed verify: failed_attempts + 1, locked at max_attempts
\* (and, like a verify, nothing is counted while the wallet is locked).
C10_WrongPinCardCallsCount ==
    \A u \in ActiveUsers : \A pin \in WrongPins(u) : \A card_id \in CardIds :
        \A r \in GuardedCardCalls(u, card_id, pin) :
            /\ ~r.ok
            /\ r.data = <<>>
            /\ r.cards = CardState(u)
            /\ IF Locked(u)
               THEN r.fa = FailedAttempts(u) /\ r.lu = LockoutUntil(u)
               ELSE /\ r.fa = FailedAttempts(u) + 1
                    /\ r.lu = IF FailedAttempts(u) + 1 >= max_attempts
                              THEN now + lockout_seconds
                              ELSE LockoutUntil(u)

C10_Witness ==
    /\ last.op \in {"get_card", "delete_card"}
    /\ last.auth = "mismatch"
    /\ ~last.ok
    /\ HasWallet(last.user)
    /\ NumCards(last.user) > 0
    /\ FailedAttempts(last.user) >= max_attempts
    /\ Locked(last.user)
\* C11: get_card for a card id stored under a different owner fails with an
\* access-denied / not-found error and hands back no card data, whatever PIN is
\* supplied; the owner is looked at before anything is decrypted.
C11_OtherOwnersCardRefused ==
    \A u \in ActiveUsers \ {WalletOwner} : \A card_id \in DOMAIN cards : \A pin \in Pins :
        cards[card_id].owner_id # u =>
            LET r == get_card_details(self, u, card_id, pin, now)
            IN /\ ~r.ok
               /\ r.data = <<>>
               /\ r.id = None
               /\ r.auth = "ok" => r.msg = "Access denied - not card owner"

C11_Witness ==
    /\ last.op = "get_card"
    /\ last.auth = "ok"
    /\ ~last.ok
    /\ last.msg = "Access denied - not card owner"
    /\ \E card_id \in DOMAIN cards : cards[card_id].owner_id # last.user


\* C12: delete_card for a card id stored under a different owner fails and leaves
\* the card in the store and in its real owner's card list; a card leaves the
\* store or its owner's list only in a delete_card of its owner with the PIN verified.
C12_CrossOwnerDeleteFails ==
    \A u \in ActiveUsers \ {WalletOwner} : \A card_id \in DOMAIN cards : \A pin \in Pins :
        cards[card_id].owner_id # u =>
            LET r == delete_card(self, u, card_id, pin, now)
                o == cards[card_id].owner_id
            IN /\ ~r.ok
               /\ r.st.cards = cards
               /\ o \in DOMAIN wallets => r.st.wallets[o] = wallets[o]

C12_Removed(u) ==
    \/ \E c \in DOMAIN cards : cards[c].owner_id = u /\ c \notin DOMAIN cards'
    \/ \E i \in 1..Len(wallets[u].cards) :
          \A j \in 1..Len(wallets'[u].cards) : wallets'[u].cards[j] # wallets[u].cards[i]

C12_OnlyOwnerRemovesCard ==
    /\ []C12_CrossOwnerDeleteFails
    /\ [][\A u \in Owners :
            (u \in DOMAIN wallets /\ u \in DOMAIN wallets' /\ C12_Removed(u)) =>
                (last'.op = "delete_card" /\ last'.user = u /\ last'.auth = "ok" /\ last'.ok)]_vars


\* C13: delete_card for a card id that is not stored (never added, or already
\* deleted) ends in a not-found error, never in an exception, and leaves every
\* card and the owner's list as they were; a delete_card that succeeds removes
\* the card, and the same delete_card made again fails that way.
C13_DeleteMissingIsNotFound ==
    \A u \in ActiveUsers \ {WalletOwner} : \A card_id \in CardIds :
        LET pin == CorrectPin(u)
            r == delete_card(self, u, card_id, pin, now)
            again == delete_card(r.st, u, card_id, pin, now)
        IN /\ r.exc = ""
           /\ (card_id \notin DOMAIN cards /\ ~Locked(u)) =>
                 /\ ~r.ok
                 /\ r.msg = "Card not found"
                 /\ r.st.cards = cards
                 /\ r.st.wallets[u].cards = wallets[u].cards
           /\ r.ok =>
                 /\ card_id \notin DOMAIN r.st.cards
                 /\ r.st.cards = Del(cards, card_id)
                 /\ ~again.ok /\ again.exc = "" /\ again.msg = "Card not found"
                 /\ again.st.cards = r.st.cards
                 /\ again.st.wallets[u].cards = r.st.wallets[u].cards

C13_Witness ==
    /\ last.op = "delete_card"
    /\ last.auth = "ok"
    /\ ~last.ok
    /\ last.msg = "Card not found"
    /\ HasWallet(last.user)
    /\ NumCards(last.user) > 0


\* C14: round trip: a card that add_card stored is handed back by get_card, with
\* its id and the correct PIN, with exactly the card_number and expiry that were
\* supplied, straight after the add_card and after any other calls that did not
\* delete it.
C14_CardIdsOf(u) ==
    IF u = WalletOwner THEN WalletCardIds
    ELSE {c \in DOMAIN cards : cards[c].owner_id = u}

C14_Add(u, card, card_id) ==
    IF u = WalletOwner THEN Wallet_add_card(wallet, card, Some(CorrectPin(u)), card_id, now)
    ELSE add_card(self, u, card, CorrectPin(u), card_id, now)

C14_Get(st, u, card_id) ==
    IF u = WalletOwner THEN Wallet_get_card(st, card_id, CorrectPin(u), now)
    ELSE get_card_details(st, u, card_id, CorrectPin(u), now)

C14_Same(r, number, expiry) ==
    /\ r.ok
    /\ Len(r.data) = 1
    /\ r.data[1].card_number = number
    /\ r.data[1].expiry = expiry

C14_RoundTrip ==
    \A u \in ActiveUsers :
        ~Locked(u) =>
            /\ \A c \in C14_CardIdsOf(u) :
                  /\ c \in DOMAIN supplied
                  /\ C14_Same(C14_Get(IF u = WalletOwner THEN wallet ELSE self, u, c),
                              supplied[c].card_number, supplied[c].expiry)
            /\ \A card \in ValidCards : \A c \in CardIds \ (DOMAIN cards \cup WalletCardIds) :
                  LET a == C14_Add(u, card, c)
                  IN a.ok => C14_Same(C14_Get(a.st, u, c), card.card_number, card.expiry)

C14_Witness ==
    /\ last.op = "get_card"
    /\ last.ok
    /\ longest[last.user] >= 1
    /\ Cardinality(DOMAIN supplied) = 2


\* C15: add_card and delete_card calls of several threads for one owner exclude
\* each other on the card list: once they have all returned, the owner's list
\* holds exactly the cards whose add_card succeeded and whose delete_card did
\* not, and so does the store; no successful add is lost.
C15_ListIds == IF target = "Wallet" THEN WalletCardIds
               ELSE {wallets["alice"].cards[i] : i \in 1..Len(wallets["alice"].cards)}

C15_NoAddLost ==
    (\A t \in Threads : pc[t] = "idle") =>
        /\ C15_ListIds = DOMAIN supplied
        /\ target = "CeloraWalletService" => DOMAIN cards = DOMAIN supplied


\* C16: wallets of different owners are independent: whatever is called for owner
\* A, with whatever arguments and outcome (failed verifies that lock A included),
\* owner B's failed_attempts, lockout_until and cards stay as they are, and B's
\* correct PIN is accepted while A is locked.
C16_CallsFor(a) ==
    {verify_pin(self, a, pin, now) : pin \in Pins}
    \cup {get_cards(self, a, pin, now) : pin \in Pins}
    \cup {get_wallet_status(self, a, now)}
    \cup {create_wallet(self, a, pin, salt) : pin \in CreatePins, salt \in Salts}
    \cup UNION {{get_card_details(self, a, c, pin, now), delete_card(self, a, c, pin, now)} :
                  c \in CardIds, pin \in Pins}
    \cup UNION {{add_card(self, a, card, pin, c, now) : card \in CardInputs} :
                  c \in CardIds \ DOMAIN cards, pin \in Pins}

C16_OwnersIndependent ==
    \A a \in Owners : \A b \in (DOMAIN wallets) \ {a} :
        /\ \A r \in C16_CallsFor(a) :
              /\ b \in DOMAIN r.st.wallets
              /\ r.st.wallets[b] = wallets[b]
              /\ ServiceCards(r.st, b) = ServiceCards(self, b)
        /\ (a \in DOMAIN wallets /\ Locked(a) /\ ~Locked(b)) => Verify(b, CorrectPin(b)).ok

C16_Witness ==
    /\ last.op = "verify"
    /\ last.auth = "mismatch"
    /\ last.exc = "WalletLockedError"
    /\ Locked(last.user)
    /\ \E b \in (DOMAIN wallets) \ {last.user} :
          /\ ~Locked(b)
          /\ NumCards(b) > 0
          /\ FailedAttempts(b) > 0
          /\ FailedAttempts(b) < max_attempts


\* C17: a wallet is created once per owner: create_wallet for an owner that has a
\* wallet fails and leaves that wallet's pin_hash, failed_attempts, lockout_until
\* and card list as they are.
C17_CreateOncePerOwner ==
    \A u \in DOMAIN wallets : \A pin \in CreatePins : \A salt \in Salts :
        LET r == create_wallet(self, u, pin, salt)
        IN /\ ~r.ok
           /\ r.st.wallets[u].pin_hash = wallets[u].pin_hash
           /\ r.st.wallets[u].failed_attempts = wallets[u].failed_attempts
           /\ r.st.wallets[u].locked_until = wallets[u].locked_until
           /\ r.st.wallets[u].cards = wallets[u].cards

\* C20: a kid once issued is never reused: the kids returned by generate_data_key and
\* rotate_key are pairwise different, rotate_key returns new_kid # old_kid, and therefore
\* every key ever issued still has its own key record.
\* generate_data_key (l.45) builds the kid from the second of the clock and four random
\* bytes and _generate_file_key (l.80-82) opens <kid>.json with 'w' without looking for an
\* existing file: two generations in one second that draw the same four bytes return the
\* same kid and the second record replaces the first.
C20_KidNeverReused ==
    /\ \A i, j \in 1..Len(issued) : i # j => issued[i].kid # issued[j].kid
    /\ kms_last.op = "rotate_key" => kms_last.new_kid # kms_last.kid
    /\ Cardinality(DOMAIN key_files) = Len(issued)

\* C19: encryption-context binding. For every key record, decrypt_data_key(kid, context)
\* fails whenever context differs from the context the record was generated under, in
\* every state, also when an earlier successful decrypt_data_key(kid, ...) has cached the
\* plaintext.
\* decrypt_data_key (l.96-97) answers from _key_cache before it looks at context: once the
\* kid is cached every context, matching or not, gets the plaintext key back.
C19_WrongContextFails ==
    \A kid \in DOMAIN key_files, context \in Contexts, urandom32 \in MasterKeys :
        context_str(context) # key_files[kid].metadata.context
            => /\ decrypt_data_key(KmsSelf, kid, context, urandom32).exc # ""
               /\ decrypt_data_key(KmsSelf, kid, context, urandom32).key = None

\* C18: after rotate_key(old_kid), and after any further generations and rotations,
\* decrypt_data_key(old_kid) with the context the key was generated under still returns
\* the original plaintext key, and no KMSKeyManager call deletes or overwrites an existing
\* key record (rotation only stamps rotated_at).
\* It holds on every run whose kids are distinct and is broken by the repeated kid of C20:
\* the generation inside rotate_key can write over <old_kid>.json.
C18_Rotated(kid) == kid \in DOMAIN key_files /\ key_files[kid].metadata.rotated_at # None
C18_RotatedKeysDecrypt ==
    \A i \in 1..Len(issued), urandom32 \in MasterKeys :
        C18_Rotated(issued[i].kid)
            => LET r == decrypt_data_key(KmsSelf, issued[i].kid, issued[i].context, urandom32)
               IN r.exc = "" /\ r.key = Some(issued[i].key)
C18_RecordsKept ==
    \A kid \in DOMAIN key_files :
        /\ kid \in DOMAIN key_files'
        /\ key_files'[kid].encrypted_key = key_files[kid].encrypted_key
        /\ [key_files'[kid].metadata EXCEPT !.rotated_at = None]
               = [key_files[kid].metadata EXCEPT !.rotated_at = None]
C18_OldKeysRetained == []C18_RotatedKeysDecrypt /\ [][C18_RecordsKept]_vars

\* C21: decrypt_data_key fails closed. Whatever kid and context are passed, and whichever
\* master key a new process finds in master.key, the call either returns a plaintext key
\* that generate_data_key / rotate_key returned for that kid, or fails: with the not-found
\* error (ValueError) when the kid has no record and with the decryption error
\* (InvalidToken) otherwise. A failed call returns no key and leaves _key_cache as it was.
C21_IssuedKeys(kid) == {issued[i].key : i \in {j \in 1..Len(issued) : issued[j].kid = kid}}
C21_Closed(km, kid, r) ==
    /\ r.exc \in {"", "ValueError", "InvalidToken"}
    /\ r.exc = "" => r.key # None /\ r.key[1] \in C21_IssuedKeys(kid)
    /\ r.exc # "" => r.key = None /\ r.st._key_cache = km._key_cache
    /\ r.exc = "ValueError" <=> kid \notin DOMAIN km.key_files \cup DOMAIN km._key_cache
C21_FailsClosed ==
    \A kid \in KnownKids, context \in Contexts, urandom32 \in MasterKeys :
        /\ C21_Closed(KmsSelf, kid, decrypt_data_key(KmsSelf, kid, context, urandom32))
        /\ \A found \in {None} \cup {Some(m) : m \in MasterKeys} :
              LET restarted == [KmsSelf EXCEPT !.master_key_file = found, !._key_cache = EmptyMap]
              IN C21_Closed(restarted, kid, decrypt_data_key(restarted, kid, context, urandom32))
C21_Witness ==
    /\ kms_last.op = "decrypt_data_key"
    /\ kms_last.exc = "InvalidToken"
    /\ kms_last.kid[1] \notin DOMAIN _key_cache
    /\ _key_cache # EmptyMap

\* C22: list_keys returns exactly one KeyMetadata per data key ever generated (rotated
\* ones included), made of kid, version, algorithm, created_at and rotated_at only, and
\* nothing for master.key; a key's rotated_at is None until rotate_key is called with its
\* kid and is set in every later state.
\* It holds on every run whose kids are distinct and is broken by the repeated kid of C20:
\* two generated keys then share one record and list_keys shows one entry for both.
C22_OnePerKey ==
    /\ Cardinality(list_keys(KmsSelf)) = Len(issued)
    /\ \A i \in 1..Len(issued) :
          Cardinality({md \in list_keys(KmsSelf) :
                          md.kid = issued[i].kid /\ md.created_at = issued[i].created_at}) = 1
    /\ \A md \in list_keys(KmsSelf) :
          DOMAIN md = {"kid", "version", "algorithm", "created_at", "rotated_at"}
C22_RotatedAt(files, kid) == files[kid].metadata.rotated_at
C22_RotatedAtSteps ==
    \A kid \in DOMAIN key_files' :
        LET before == IF kid \in DOMAIN key_files THEN C22_RotatedAt(key_files, kid) ELSE None
            called == kms_last'.op = "rotate_key" /\ kms_last'.kid = Some(kid)
        IN /\ before = None /\ C22_RotatedAt(key_files', kid) # None => called
           /\ before # None => C22_RotatedAt(key_files', kid) # None
           /\ called /\ kid \in DOMAIN key_files /\ kms_last' # kms_last
                 => C22_RotatedAt(key_files', kid) # None
C22_ListKeysComplete == []C22_OnePerKey /\ [][C22_RotatedAtSteps]_vars

\* C23: a key generated later carries a strictly later created_at than every key generated
\* before it; in particular the metadata returned by rotate_key(old_kid) has a created_at
\* strictly greater than the one of the old key's record.
\* created_at is the reading of time.time() at l.65 and nothing compares it with earlier
\* records: two generations that read the same clock value carry equal created_at.
C23_CreatedAtIncreases ==
    /\ \A i, j \in 1..Len(issued) : i < j => issued[i].created_at < issued[j].created_at
    /\ \A i \in 1..Len(issued) :
          kms_last.op = "rotate_key" /\ kms_last.kid = Some(issued[i].kid) /\ i < Len(issued)
              => issued[i].created_at < issued[Len(issued)].created_at

\* C24: the plaintext-key cache under concurrent decrypt_data_key calls. Every call that
\* returns a key returns the key issued for its own kid and leaves the cache mapping that
\* kid to that key; every cache entry is the key of its kid; and an entry, once in the
\* cache, is neither lost nor changed by the other threads.
\* The lookup (l.96) and the insert (l.105) are separate steps, so two threads can both
\* miss and both insert; both then store the same value.
C24_CacheCorrect ==
    /\ \A kid \in DOMAIN _key_cache : C21_IssuedKeys(kid) = {_key_cache[kid]}
    /\ \A t \in Threads :
          pc[t] = "decrypt_insert" => C21_IssuedKeys(loc[t].kid) = {loc[t].tmp[1]}
    /\ kms_last.op = "decrypt_data_key" /\ kms_last.exc = ""
          => /\ C21_IssuedKeys(kms_last.kid[1]) = {kms_last.key[1]}
             /\ kms_last.kid[1] \in DOMAIN _key_cache
             /\ _key_cache[kms_last.kid[1]] = kms_last.key[1]
C24_EntriesKept ==
    \A kid \in DOMAIN _key_cache :
        kid \in DOMAIN _key_cache' /\ _key_cache'[kid] = _key_cache[kid]
C25_StoredKeysOpen ==
    \A kid \in DOMAIN key_files, urandom32 \in MasterKeys :
        \E context \in Contexts :
            /\ context_str(context) = key_files[kid].metadata.context
            /\ decrypt_data_key([KmsSelf EXCEPT !._key_cache = EmptyMap],
                                kid, context, urandom32).exc = ""
C25_MasterKeyKept == master_key_file # None => master_key_file' = master_key_file
C25_MasterKeyStable == []C25_StoredKeysOpen /\ [][C25_MasterKeyKept]_vars

\* C26: for every stored card the masked view of list_cards / get_cards has a
\* card_number_masked as long as the number has digits, ending in the last 4 digits with
\* "*" in every position before them, and a cvv_masked of "***" whatever CVV was given;
\* no field of the view is the full card number or the raw CVV.
\* Neither add_card checks the length of the number: a Luhn-valid number of four digits
\* or fewer is stored, and _mask_card_number (l.38-39) hands such a number back whole
\* (EncryptedCard._mask_card_number does so for exactly four digits).
C26_Added ==
    /\ checked # None
    /\ checked[1].op \in {"Wallet.add_card", "CeloraWalletService.add_card"}
    /\ checked[1].out.ok
C26_Masked(view, card) ==
    LET n == Digits(card.card_number)
        m == view.card_number_masked
    IN /\ Len(m) = Len(n)
       /\ Len(n) >= 4
       /\ \A i \in 1..Len(m) : m[i] = IF i <= Len(n) - 4 THEN "*" ELSE n[i]
       /\ view.cvv_masked = <<"*", "*", "*">>
       /\ \A f \in {"card_number_masked", "expiry", "cvv_masked"} :
             /\ view[f] # card.card_number
             /\ view[f] # n
             /\ card.cvv # None => view[f] # card.cvv[1]
C26_MaskedViewHidesNumber ==
    C26_Added =>
        /\ Len(checked[1].out.views) = 1
        /\ \A i \in 1..Len(checked[1].out.views) : C26_Masked(checked[1].out.views[i], card_in)

\* C27: on every 16-digit card number _luhn_valid and _luhn_validate answer exactly as
\* the standard mod-10 checksum does (from the right, every second digit doubled, 9 taken
\* off a result above 9, the sum divisible by 10); 4532015112830366 is valid and
\* 4532015112830367 is not; and add_card stores no card whose number they reject.
RECURSIVE C27_SumFromRight(_, _)
C27_SumFromRight(digits, k) ==
    IF k > Len(digits) THEN 0
    ELSE LET d == DigitVal[digits[Len(digits) - k + 1]]
             v == IF k % 2 = 0 THEN (IF 2 * d > 9 THEN 2 * d - 9 ELSE 2 * d) ELSE d
         IN v + C27_SumFromRight(digits, k + 1)
C27_Mod10(digits) == C27_SumFromRight(digits, 1) % 10 = 0
C27_Is(op) == checked # None /\ checked[1].op = op
C27_LuhnIsMod10 ==
    /\ _luhn_valid(GoodNumber) /\ _luhn_validate(GoodNumber)
    /\ ~_luhn_valid(BadNumber) /\ ~_luhn_validate(BadNumber)
    /\ Len(Digits(card_in.card_number)) = 16 =>
          /\ C27_Is("_luhn_valid") => checked[1].out = C27_Mod10(Digits(card_in.card_number))
          /\ C27_Is("_luhn_validate") => checked[1].out = C27_Mod10(Digits(card_in.card_number))
    /\ C27_Is("Wallet.add_card") /\ ~_luhn_valid(card_in.card_number)
          => ~checked[1].out.ok /\ checked[1].out.stored = <<>>
    /\ C27_Is("CeloraWalletService.add_card") /\ ~_luhn_validate(card_in.card_number)
          => ~checked[1].out.ok /\ checked[1].out.stored = EmptyMap
C27_Witness ==
    /\ C27_Is("_luhn_valid")
    /\ checked[1].out
    /\ card_in.card_number \in AlternatingNumbers \ {GoodNumber}

\* C28: an expiry written MM/YY or MM/YYYY is accepted exactly when its month is in 1..12
\* and its (year, month) is not before the current (year, month), YY standing for 20YY:
\* the current month passes, every earlier month or year fails, month 00 or 13 fails.
\* CeloraWalletService._validate_expiry (l.387-409) checks month and year for their form
\* only and never looks at the date, so an expired card passes.
C28_Form(e) ==
    /\ Len(e) \in {5, 7}
    /\ e[3] = "/"
    /\ \A i \in (1..Len(e)) \ {3} : e[i] \in DigitChars
C28_Month(e) == int(SubSeq(e, 1, 2))
C28_Year(e) == IF Len(e) = 5 THEN 2000 + int(SubSeq(e, 4, 5)) ELSE int(SubSeq(e, 4, 7))
C28_Expected(e) ==
    /\ C28_Month(e) \in 1..12
    /\ \/ C28_Year(e) > localtime.tm_year
       \/ C28_Year(e) = localtime.tm_year /\ C28_Month(e) >= localtime.tm_mon
C28_ExpiryNotPast ==
    C28_Form(card_in.expiry) =>
        /\ C27_Is("_validate_expiry") => checked[1].out = C28_Expected(card_in.expiry)
        /\ C27_Is("CeloraWalletService._validate_expiry")
              => checked[1].out = C28_Expected(card_in.expiry)

\* C29: the CVV is optional. A card whose number and expiry pass is accepted by
\* validation and added when it carries no CVV, and when it carries one exactly if that
\* CVV is 3 or 4 digits.
\* _validate_card_data (l.352-356) lists "cvv" among the required fields: the service
\* refuses a card without CVV with "Missing required field: cvv".
C29_CvvPasses(cvv) ==
    cvv = None \/ (Len(cvv[1]) \in {3, 4} /\ \A i \in 1..Len(cvv[1]) : cvv[1][i] \in DigitChars)
C29_CvvOptional ==
    /\ C27_Is("Wallet.add_card")
       /\ _luhn_valid(card_in.card_number) /\ _validate_expiry(card_in.expiry)
          => (checked[1].out.ok <=> C29_CvvPasses(card_in.cvv))
    /\ C27_Is("CeloraWalletService.add_card")
       /\ _luhn_validate(card_in.card_number) /\ Service_validate_expiry(card_in.expiry)
          => (checked[1].out.ok <=> C29_CvvPasses(card_in.cvv))
    /\ C27_Is("_validate_card_data")
       /\ _luhn_validate(card_in.card_number) /\ Service_validate_expiry(card_in.expiry)
          => (checked[1].out = "" <=> C29_CvvPasses(card_in.cvv))

\* C30: an add_card that fails validation (Luhn, expiry or CVV) stores nothing: the
\* owner's card list and the card store stay as they were, and a card id appears in a
\* store only in a step of a successful add_card.
C30_InvalidCards ==
    {BadLuhnCard,
     [GoodCard EXCEPT !.expiry = <<"1","3","/","3","0">>],
     [GoodCard EXCEPT !.cvv = Some(<<"1","2">>)]}
C30_AddCard(u, card, pin, card_id) ==
    IF u = WalletOwner THEN Wallet_add_card(wallet, card, Some(pin), card_id, now)
    ELSE add_card(self, u, card, pin, card_id, now)
C30_StoredIds ==
    IF target = "Wallet" THEN {wallet.cards[i].id : i \in 1..Len(wallet.cards)}
    ELSE DOMAIN cards \cup UNION {{wallets[u].cards[i] : i \in 1..Len(wallets[u].cards)} :
                                     u \in DOMAIN wallets}
C30_InvalidRejected ==
    \A u \in ActiveUsers, card \in C30_InvalidCards, pin \in Pins, card_id \in CardIds :
        LET r == C30_AddCard(u, card, pin, card_id)
        IN /\ ~r.ok
           /\ View(u, r).cards = CardState(u)
           /\ u # WalletOwner => r.st.cards = cards
C30_StoredByAdd ==
    /\ ~(C30_StoredIds' \subseteq C30_StoredIds) => last'.op = "add_card" /\ last'.ok
    /\ last'.op = "add_card" /\ ~last'.ok /\ last' # last
          => /\ cards' = cards
             /\ wallet'.cards = wallet.cards
             /\ \A u \in DOMAIN wallets : wallets'[u].cards = wallets[u].cards
C30_FailedAddStoresNothing == []C30_InvalidRejected /\ [][C30_StoredByAdd]_vars
C30_Witness ==
    /\ last.op = "add_card"
    /\ last.auth = "ok"
    /\ ~last.ok
    /\ HasWallet(last.user)
    /\ NumCards(last.user) > 0

\* ------------------------------------------------------------------ C31
\* what status(user) reports in the current state
C31_Status(u) == get_wallet_status(self, u, now)

\* the report agrees with the wallet: the count is the length of the card list
\* (the cards list_cards shows to the owner), the attempts are the counter,
\* is_locked is "now < locked_until", which is when verify is refused as
\* locked whatever the PIN, and locked_until is given only while locked
C31_Report(u) ==
    LET r == C31_Status(u)
        s == r.data[1]
    IN /\ r.ok /\ r.exc = "" /\ r.auth = "none"
       /\ s.cards_count = NumCards(u)
       /\ ~Locked(u) => s.cards_count = Len(get_cards(self, u, CorrectPin(u), now).data)
       /\ s.failed_attempts = FailedAttempts(u)
       /\ s.is_locked = Locked(u)
       /\ \A pin \in Pins : s.is_locked = (Verify(u, pin).auth = "locked")
       /\ s.locked_until = (IF s.is_locked THEN Some(LockoutUntil(u)) ELSE None)

C31_ReportTrue ==
    \A u \in users : /\ C31_Status(u).st = self
                     /\ HasWallet(u) => C31_Report(u)

\* a status call leaves every wallet and every stored card as it was
C31_StatusCall == last'.op = "status" /\ last'.pin = None

C31_NoEffect == C31_StatusCall => wallets' = wallets /\ cards' = cards

\* C31: status(owner) takes no PIN and changes no state; it reports the number
\* of cards of the owner, the current failed_attempts, is_locked exactly when
\* now < lockout_until (exactly when verify is refused as locked) and a
\* locked_until value only while locked.
C31_StatusReadsOnly == []C31_ReportTrue /\ [][C31_NoEffect]_vars

\* a status call answered for a locked wallet that holds a card and whose
\* failed_attempts is not 0
C31_Witness ==
    /\ last.op = "status" /\ last.ok
    /\ HasWallet(last.user)
    /\ Locked(last.user)
    /\ NumCards(last.user) > 0
    /\ FailedAttempts(last.user) > 0

\* ----------------------------------------- cards kept from an earlier run
\* Card records outlive the object that wrote them (the virtual_cards rows):
\* an instance built later encrypts under the key it was given or generated,
\* and finds records written under its own key or under an earlier one.
EarlierKey == "earlier_fernet_key"

StoredCardKeys(fernet) == {fernet, EarlierKey}

StoredVirtualCard(id, key) ==
    [id |-> id,
     encrypted |-> fernet_encrypt(key, [card_number |-> GoodCard.card_number,
                                        expiry |-> GoodCard.expiry])]

StoredEncryptedCard(id, owner, key) ==
    [id |-> id, owner_id |-> owner,
     encrypted_data |-> fernet_encrypt(key, [card_number |-> GoodCard.card_number,
                                             expiry |-> GoodCard.expiry,
                                             cvv |-> GoodCard.cvv[1],
                                             cardholder_name |-> ""]),
     status |-> "active"]

InitStored ==
    /\ target \in {"Wallet", "CeloraWalletService"}
    /\ users = {"alice"}
    /\ now = 1
    /\ \E salt \in Salts :
          LET w == Wallet__init__(WalletOwner, Pin1, salt)
              s == create_wallet([wallets |-> EmptyMap, cards |-> EmptyMap], "alice", Pin1, salt).st
          IN IF target = "Wallet"
             THEN /\ \E k1 \in StoredCardKeys(w.fernet), k2 \in StoredCardKeys(w.fernet) :
                        wallet = [w EXCEPT !.cards = <<StoredVirtualCard("c1", k1),
                                                      StoredVirtualCard("c2", k2)>>]
                  /\ wallets = EmptyMap
                  /\ cards = EmptyMap
             ELSE /\ wallet = w
                  /\ wallets = [s.wallets EXCEPT !["alice"].cards = <<"c1", "c2">>]
                  /\ \E k1 \in StoredCardKeys(ServiceKey), k2 \in StoredCardKeys(ServiceKey) :
                        cards = Put(Put(EmptyMap, "c1", StoredEncryptedCard("c1", "alice", k1)),
                                    "c2", StoredEncryptedCard("c2", "alice", k2))
    /\ last = [op |-> "init", user |-> "", pin |-> None, auth |-> "none", exc |-> "", ok |-> TRUE, msg |-> ""]
    /\ streak = [u \in Users |-> 0]
    /\ longest = [u \in Users |-> 0]
    /\ NoThreads
    /\ supplied = EmptyMap
    /\ NoKeys
    /\ NoCard

NextStored ==
    \/ Tick
    \/ WalletVerify
    \/ WalletListCards
    \/ WalletGetCard
    \/ VerifyPin
    \/ GetCards
    \/ GetCardDetails
    \/ DeleteCard

SpecStored == InitStored /\ [][NextStored]_vars

\* ------------------------------------------------------------------ C32
\* the cards of u that do not open under the key of the running instance
C32_Undecryptable(u) ==
    IF u = WalletOwner
    THEN {wallet.cards[i].id : i \in {j \in 1..Len(wallet.cards) :
                                        ~fernet_decrypt(wallet.fernet, wallet.cards[j].encrypted).ok}}
    ELSE {id \in DOMAIN cards : /\ cards[id].owner_id = u
                                /\ \E i \in 1..Len(wallets[u].cards) : wallets[u].cards[i] = id
                                /\ ~fernet_decrypt(ServiceKey, cards[id].encrypted_data).ok}

C32_DecryptionError == {"Unable to decrypt card - invalid key", "Failed to decrypt card data"}
C32_NotFound == {"Card not found", "Card not found.", "Wallet not found"}

C32_ListCards(u, pin) ==
    IF u = WalletOwner THEN Wallet_list_cards(wallet) ELSE get_cards(self, u, pin, now)

C32_GetCard(u, card_id, pin) ==
    IF u = WalletOwner THEN Wallet_get_card(wallet, card_id, pin, now)
    ELSE get_card_details(self, u, card_id, pin, now)

\* a call that got past the PIN check fails with the decryption error
C32_Fails(r) ==
    r.auth \in {"ok", "none"} => ~r.ok /\ r.msg \in C32_DecryptionError \ C32_NotFound

C32_ListFails(u) ==
    C32_Undecryptable(u) # {} => \A pin \in Pins : C32_Fails(C32_ListCards(u, pin))

C32_GetFails(u) ==
    \A card_id \in C32_Undecryptable(u), pin \in Pins : C32_Fails(C32_GetCard(u, card_id, pin))

C32_WalletClass == target = "Wallet" => C32_ListFails(WalletOwner) /\ C32_GetFails(WalletOwner)

C32_ServiceGetCard == \A u \in users : HasWallet(u) => C32_GetFails(u)

C33_StoredTokens ==
    IF target = "Wallet" THEN {wallet.cards[i].encrypted : i \in 1..Len(wallet.cards)}
    ELSE {cards[id].encrypted_data : id \in DOMAIN cards}

\* the plaintext data keys whose records the Key Manager holds
C33_ManagedKeys ==
    {issued[i].key : i \in {j \in 1..Len(issued) : issued[j].kid \in DOMAIN key_files}}

\* C33: every stored card was encrypted by add_card under a data key of the
\* Key Manager (made by generate_data_key at the first add_card if the wallet
\* had none), so the key of every stored card is one whose record exists in
\* the Key Manager.
C33_CardsUnderManagedKey ==
    \A token \in C33_StoredTokens : token.key \in C33_ManagedKeys

\* ------------------------------------------------- the encryption key of an instance
\* A key or text value: the name of its bytes and how many times they are
\* base64-encoded. Fernet.generate_key() returns 32 random bytes encoded once.
Bytes(name, b64) == [bytes |-> name, b64 |-> b64]
urlsafe_b64encode(s) == [s EXCEPT !.b64 = @ + 1]
urlsafe_b64decode(s) ==
    IF s.b64 > 0 THEN [exc |-> "", value |-> [s EXCEPT !.b64 = @ - 1]]
    ELSE [exc |-> "binascii.Error", value |-> s]

\* Fernet.generate_key()
GeneratedKeys == {Bytes("generated_1", 1), Bytes("generated_2", 1), Bytes("generated_3", 1)}
\* the encryption_key argument
SuppliedKeys == {None, Some(Bytes("supplied", 1))}
\* the environment variable: unset, a key encoded for it, or text that is not base64
EnvKeys == {None, Some(Bytes("from_env", 2)), Some(Bytes("not base64", 0))}

LogRecord(level, msg, args) == [level |-> level, msg |-> msg, args |-> args]

\* CeloraWalletService.__init__(encryption_key): the Fernet key and the log records
CeloraWalletService__init__(encryption_key, env_key, key) ==
    IF encryption_key # None
    THEN [exc |-> "", fernet |-> encryption_key, generated |-> FALSE, log |-> {}]
    ELSE IF env_key # None
    THEN LET d == urlsafe_b64decode(env_key[1])
         IN IF d.exc # "" THEN [exc |-> d.exc, fernet |-> None, generated |-> FALSE, log |-> {}]
            ELSE [exc |-> "", fernet |-> Some(d.value), generated |-> FALSE, log |-> {}]
    ELSE [exc |-> "", fernet |-> Some(key), generated |-> TRUE,
          log |-> {LogRecord("WARNING", "Generated new encryption key - store securely!", <<>>),
                   LogRecord("INFO", "Encryption key: %s", <<urlsafe_b64encode(key)>>)}]

\* _generate_encryption_key() of celora_wallet.py
_generate_encryption_key(env, key) ==
    IF env # None
    THEN LET d == urlsafe_b64decode(env[1])
         IN IF d.exc = "" THEN [key |-> d.value, generated |-> FALSE, log |-> {}]
            ELSE [key |-> key, generated |-> TRUE,
                  log |-> {LogRecord("WARNING",
                                     "WALLET_ENC_KEY provided but invalid base64, falling back to ephemeral key for now",
                                     <<>>)}]
    ELSE [key |-> key, generated |-> TRUE, log |-> {}]

\* Wallet.__init__: self._fernet = Fernet(encryption_key or _generate_encryption_key())
Wallet_fernet(encryption_key, env, key) ==
    IF encryption_key # None
    THEN [exc |-> "", fernet |-> encryption_key, generated |-> FALSE, log |-> {}]
    ELSE LET g == _generate_encryption_key(env, key)
         IN [exc |-> "", fernet |-> Some(g.key), generated |-> g.generated, log |-> g.log]

InitConstruct ==
    /\ target = "constructors"
    /\ users = {}
    /\ now = 1
    /\ \E salt \in Salts : wallet = Wallet__init__(WalletOwner, Pin1, salt)
    /\ wallets = EmptyMap
    /\ cards = EmptyMap
    /\ last = [op |-> "init", user |-> "", pin |-> None, auth |-> "none", exc |-> "", ok |-> TRUE, msg |-> ""]
    /\ streak = [u \in Users |-> 0]
    /\ longest = [u \in Users |-> 0]
    /\ NoThreads
    /\ supplied = EmptyMap
    /\ NoKeys
    /\ NoCard

\* an instance is constructed; what it wrote is added to the log
Construct(op, r) ==
    /\ checked' = Some([op |-> op, out |-> [exc |-> r.exc, fernet |-> r.fernet,
                                            generated |-> r.generated]])
    /\ log' = log \cup r.log
    /\ UNCHANGED <<target, users, now, wallet, wallets, cards, last, streak, longest, threadVars,
                   supplied, kmsVars, card_in>>

ServiceInit ==
    /\ target = "constructors"
    /\ \E encryption_key \in SuppliedKeys, env_key \in EnvKeys, key \in GeneratedKeys :
          Construct("CeloraWalletService.__init__",
                    CeloraWalletService__init__(encryption_key, env_key, key))

WalletInit ==
    /\ target = "constructors"
    /\ \E encryption_key \in SuppliedKeys, env \in EnvKeys, key \in GeneratedKeys :
          Construct("Wallet.__init__", Wallet_fernet(encryption_key, env, key))

NextConstruct ==
    \/ ServiceInit
    \/ WalletInit

SpecConstruct == InitConstruct /\ [][NextConstruct]_vars

\* ------------------------------------------------------------------ C34
\* the record carries the bytes of a generated key, in whatever encoding
C34_HoldsKey(rec) ==
    \E i \in 1..Len(rec.args), key \in GeneratedKeys : rec.args[i].bytes = key.bytes

C34_NoKeyLogged == \A rec \in log : ~C34_HoldsKey(rec)

\* the instance just constructed with a generated key left a warning in the log
C34_WarningLogged ==
    (checked # None /\ checked[1].out.generated) =>
        \E rec \in log : rec.level = "WARNING"

C34_ServiceWarns ==
    (checked # None /\ checked[1].op = "CeloraWalletService.__init__") => C34_WarningLogged

C34_WalletClassLogsNoKey ==
    [][checked'[1].op = "Wallet.__init__" => \A rec \in log' \ log : ~C34_HoldsKey(rec)]_vars

\* C34: no log record ever contains a generated key, and an instance that
\* generated its key because none was supplied has logged a warning.
C34_KeyNeverLogged == C34_NoKeyLogged /\ C34_WarningLogged

\* ------------------------------------------- the comparison of derived keys
\* Derived keys as byte strings: pbkdf2_hmac gives DkLen bytes whatever the PIN.
ByteValues == {0, 1}
DerivedKeys == [1..DkLen -> ByteValues]

RECURSIVE compare_early_exit(_, _, _, _, _)
\* variant: the comparison stops at the first byte that differs
compare_early_exit(a, b, i, diff, steps) ==
    IF i > Len(b) THEN [equal |-> ~diff, steps |-> steps]
    ELSE IF a[i] # b[i] THEN [equal |-> FALSE, steps |-> steps + 1]
    ELSE compare_early_exit(a, b, i + 1, diff, steps + 1)

RECURSIVE compare_digest_bytes(_, _, _, _, _)
\* hmac.compare_digest(a, b) on byte strings of one length: every position is
\* examined and the differences are accumulated; steps counts the positions
compare_digest_bytes(a, b, i, diff, steps) ==
    IF i > Len(b) THEN [equal |-> ~diff, steps |-> steps]
    ELSE compare_digest_bytes(a, b, i + 1, diff \/ a[i] # b[i], steps + 1)

\* ok = hmac.compare_digest(stored_dk, dk) in Wallet._verify_pincode
Wallet_compare(stored_dk, dk) == compare_digest_bytes(stored_dk, dk, 1, FALSE, 0)
\* return hmac.compare_digest(stored_dk, dk) in _verify_pin_hash
Service_compare(stored_dk, dk) == compare_digest_bytes(stored_dk, dk, 1, FALSE, 0)

\* how many leading bytes of dk match stored_dk
LeadingMatch(stored_dk, dk) ==
    Cardinality({n \in 1..Len(dk) : \A i \in 1..n : stored_dk[i] = dk[i]})

InitCompare ==
    /\ target = "compare_digest"
    /\ users = {}
    /\ now = 1
    /\ \E salt \in Salts : wallet = Wallet__init__(WalletOwner, Pin1, salt)
    /\ wallets = EmptyMap
    /\ cards = EmptyMap
    /\ last = [op |-> "init", user |-> "", pin |-> None, auth |-> "none", exc |-> "", ok |-> TRUE, msg |-> ""]
    /\ streak = [u \in Users |-> 0]
    /\ longest = [u \in Users |-> 0]
    /\ NoThreads
    /\ supplied = EmptyMap
    /\ NoKeys
    /\ NoCard

Compared(op, stored_dk, dk, r) ==
    /\ checked' = Some([op |-> op, stored_dk |-> stored_dk, dk |-> dk,
                        out |-> [ok |-> r.equal, steps |-> r.steps]])
    /\ UNCHANGED <<target, users, now, wallet, wallets, cards, last, streak, longest, threadVars,
                   supplied, kmsVars, card_in, log>>

WalletCompareDigest ==
    /\ target = "compare_digest"
    /\ \E stored_dk \in DerivedKeys, dk \in DerivedKeys :
          Compared("Wallet._verify_pincode", stored_dk, dk, Wallet_compare(stored_dk, dk))

ServiceCompareDigest ==
    /\ target = "compare_digest"
    /\ \E stored_dk \in DerivedKeys, dk \in DerivedKeys :
          Compared("_verify_pin_hash", stored_dk, dk, Service_compare(stored_dk, dk))

NextCompare ==
    \/ WalletCompareDigest
    \/ ServiceCompareDigest

SpecCompare == InitCompare /\ [][NextCompare]_vars

\* ------------------------------------------------------------------ C35
\* the comparison just made, repeated with another derived key
C35_Again(dk) ==
    IF checked[1].op = "Wallet._verify_pincode" THEN Wallet_compare(checked[1].stored_dk, dk)
    ELSE Service_compare(checked[1].stored_dk, dk)

C36_InvalidPins ==
    {PinShort, <<>>, <<"1", "2", "3", "4", "5">>, <<"1", "2", "3", "4", "5", "6", "7">>,
     <<"1", "2", "3", "4", "5", "a">>, <<"1", "2", " ", "4", "5", "6">>,
     <<"-", "1", "2", "3", "4", "5">>}

\* create_wallet with such a PIN fails for every user, whether or not a wallet
\* of that user exists, and hands back the service as it was
C36_Rejects ==
    \A user_id \in Owners, pin \in C36_InvalidPins, salt \in Salts :
        LET r == create_wallet(self, user_id, pin, salt)
        IN ~r.ok /\ r.msg = "PIN must be 6 digits" /\ r.st = self

\* a PIN of six digits is accepted
C36_Accepts ==
    \A user_id \in Owners, pin \in Pins, salt \in Salts : create_wallet(self, user_id, pin, salt).ok

C36_FailedCreate == last'.op = "create_wallet" /\ ~last'.ok

C36_NothingCreated == C36_FailedCreate => wallets' = wallets /\ cards' = cards

\* C36: create_wallet with a PIN that is not exactly 6 digits fails and creates
\* no wallet: the set of wallets and every existing wallet stay as they were.
C36_InvalidPinCreatesNothing ==
    [](C36_Rejects /\ C36_Accepts) /\ [][C36_NothingCreated]_vars

\* create_wallet has just failed on the PIN while the user holds a wallet with a card
C36_Witness ==
    /\ last.op = "create_wallet" /\ ~last.ok
    /\ last.msg = "PIN must be 6 digits"
    /\ last.pin = Some(PinShort)
    /\ last.user \in DOMAIN wallets
    /\ Len(wallets[last.user].cards) > 0

\* ------------------------------------------------------------------ C37
\* C37: in every reachable state failed_attempts of every wallet is at least 0
\* and at most max_attempts.
C37_AttemptsBounded ==
    \A u \in ActiveUsers : 0 <= FailedAttempts(u) /\ FailedAttempts(u) <= max_attempts

C37_NeverNegative == \A u \in ActiveUsers : 0 <= FailedAttempts(u)

\* the counter passes max_attempts only by a failed verify on a wallet whose
\* lockout has elapsed with the counter still at max_attempts or above
C37_PassesMax(u) ==
    /\ HasWallet(u)
    /\ FailedAttempts(u) <= max_attempts
    /\ (IF u = WalletOwner THEN wallet'.failed_attempts ELSE wallets'[u].failed_attempts) > max_attempts

C37_OnlyAfterUnlock ==
    [][\A u \in Users : C37_PassesMax(u) =>
          /\ FailedAttempts(u) = max_attempts
          /\ LockoutUntil(u) > 0
          /\ ~Locked(u)]_vars

\* ------------------------------------------------------------------ C38
\* verify on a locked wallet, with any PIN, is refused as locked and hands the
\* wallet back as it was: same failed_attempts, same lockout_until, same cards
C38_LockedVerify(u) ==
    \A pin \in Pins :
        LET r == Verify(u, pin)
        IN /\ r.auth = "locked" /\ ~r.ok
           /\ r.fa = FailedAttempts(u)
           /\ r.lu = LockoutUntil(u)
           /\ r.cards = CardState(u)

C38_LockedVerifyKeeps == \A u \in ActiveUsers : Locked(u) => C38_LockedVerify(u)

\* a call refused as locked, verify or a card call that verifies first, leaves
\* every wallet and every stored card as it was
C38_Refused == last'.auth = "locked" /\ last' # last

C38_NoEffect == C38_Refused => wallet' = wallet /\ wallets' = wallets /\ cards' = cards

\* C38: a verify refused because the wallet is locked changes nothing:
\* failed_attempts and lockout_until stay as they are, so attempts during a
\* lockout neither extend it nor count as failures.
C38_LockedAttemptChangesNothing == []C38_LockedVerifyKeeps /\ [][C38_NoEffect]_vars

\* a wrong PIN has just been refused as locked, one second before the lockout ends
C38_Witness ==
    /\ last.op = "verify"
    /\ last.auth = "locked"
    /\ HasWallet(last.user)
    /\ last.pin \in {Some(p) : p \in WrongPins(last.user)}
    /\ FailedAttempts(last.user) >= max_attempts
    /\ LockoutUntil(last.user) = now + 1

\* ------------------------------------------------------------------ C39
\* every id in a card list is a stored card of that owner
C39_ListedAreStored ==
    \A u \in DOMAIN wallets : \A i \in 1..Len(wallets[u].cards) :
        /\ wallets[u].cards[i] \in DOMAIN cards
        /\ cards[wallets[u].cards[i]].owner_id = u

\* every stored card is listed exactly once by its owner
C39_StoredAreListed ==
    \A id \in DOMAIN cards :
        /\ cards[id].owner_id \in DOMAIN wallets
        /\ Cardinality({i \in 1..Len(wallets[cards[id].owner_id].cards) :
                           wallets[cards[id].owner_id].cards[i] = id}) = 1

\* C39: in the service the card lists and the card store agree: every listed
\* id is in the store with that owner as owner_id, and every stored card is
\* listed exactly once by its owner.
C39_ListAndStoreAgree == C39_ListedAreStored /\ C39_StoredAreListed

\* a stored card whose owner's list does not name it
C39_Orphan ==
    \E id \in DOMAIN cards :
        /\ cards[id].owner_id \in DOMAIN wallets
        /\ \A i \in 1..Len(wallets[cards[id].owner_id].cards) :
              wallets[cards[id].owner_id].cards[i] # id

\* the lists and the store part only at a create_wallet for a user who has one
C39_PartsOnlyAtCreate ==
    [][(C39_ListAndStoreAgree /\ ~C39_ListAndStoreAgree') =>
          (last'.op = "create_wallet" /\ last'.ok /\ last'.user \in DOMAIN wallets)]_vars

\* ------------------------------------------------------------------ C40
\* the kids a caller may name that have no record in the key store
C40_UnknownKids == KnownKids \ DOMAIN key_files

C40_Rotate(old_kid, urandom, urandom32) ==
    rotate_key(KmsSelf, old_kid, now, urandom, PlaintextKey(Len(issued) + 1), urandom32)

\* C40: rotate_key(old_kid) for a kid without a record fails as not found and
\* generates no key: the key records are the same after the call.
C40_UnknownKidNotRotated ==
    target = "KMSKeyManager" =>
        \A old_kid \in C40_UnknownKids, urandom \in Rand, urandom32 \in MasterKeys :
            LET r == C40_Rotate(old_kid, urandom, urandom32)
            IN /\ r.exc # ""
               /\ r.key = None
               /\ r.st.key_files = key_files

\* rotate_key for a kid that has a record marks that record and adds one
C40_KnownKidRotated ==
    target = "KMSKeyManager" =>
        \A old_kid \in DOMAIN key_files, urandom \in Rand, urandom32 \in MasterKeys :
            LET r == C40_Rotate(old_kid, urandom, urandom32)
            IN /\ r.exc = ""
               /\ r.st.key_files[old_kid].metadata.rotated_at # None
               /\ r.kid[1] \in DOMAIN r.st.key_files


====
